---- MODULE Spec2Model ----
(***************************************************************************)
(* A model of defoe's METS/ALTO object model (defoe.fmp, defoe.alto,       *)
(* defoe.nlsArticles): Archive -> Document -> Page -> Area / TextBlock.    *)
(*                                                                         *)
(* Strings of the program are sequences of one-character strings, so that  *)
(* prefix tests, regular expressions and id cleaning are computed on the   *)
(* characters.  A Python dict is a sequence of <<key, value>> pairs in     *)
(* insertion order (assigning to an existing key keeps its position).      *)
(***************************************************************************)
EXTENDS Integers, Sequences, FiniteSets, TLC

VARIABLES
    mets,       \* the METS stream of the document: physical, logical, links
    alto,       \* the ALTO streams: page code -> text block ids, in order
    doc,        \* the Document object (fmp): construction state and fields
    parsed,     \* streams parsed so far, in order: <<"mets">>, <<"alto", p>>
    requested,  \* TRUE once the caller has asked for a Page or a TextBlock
    result,     \* what the last accessor call returned (or raised)
    dateText,   \* mods:dateIssued text (None when absent)
    placeText,  \* mods:placeTerm text (None when absent)
    years,      \* what the year derivation last returned
    block,      \* a TextBlock: its tokens and the size of its page
    bbox,       \* what get_tokens_bbox last returned for block
    archive,    \* an Archive: its document codes and the state of each METS
    gen,        \* the generator made by Archive.__iter__
    got,        \* documents the caller obtained: by iteration, by indexing
    call,       \* the arguments of a TextBlock.match call
    matches,    \* what the match calls made so far returned, in order
    page,       \* an ALTO page: its Page element, areas and text blocks
    listing     \* the file names an archive lists

vars == <<mets, alto, doc, parsed, requested, result, dateText, placeText,
          years, block, bbox, archive, gen, got, call, matches, page, listing>>

None == "None"

---------------------------------------------------------------------------
(* Characters and strings *)

Digits == {"0", "1", "2", "3", "4", "5", "6", "7", "8", "9"}

Letters == {"a", "c", "d", "h", "p", "r", "s", "t", "y"}

UpperLetters == {"C"}

\* The characters of the model in ASCII order; Ord is the position.
CharOrder == <<" ", "#", ",", "-", ".", "/", "0", "1", "2", "3", "4", "5",
               "6", "7", "8", "9", "C", "[", "]", "_", "a", "c", "d", "h", "p",
               "r", "s", "t", "y">>

Ord(c) == CHOOSE i \in 1..Len(CharOrder) : CharOrder[i] = c

\* str.startswith
StartsWith(s, p) ==
    /\ Len(s) >= Len(p)
    /\ \A i \in 1..Len(p) : s[i] = p[i]

\* Python's order on str: s < t
RECURSIVE StrLess(_, _)
StrLess(s, t) ==
    IF t = <<>> THEN FALSE
    ELSE IF s = <<>> THEN TRUE
    ELSE IF s[1] # t[1] THEN Ord(s[1]) < Ord(t[1])
    ELSE StrLess(Tail(s), Tail(t))

\* sorted(list(set(xs))) for a set of strings
RECURSIVE SortedStrs(_)
SortedStrs(S) ==
    IF S = {} THEN <<>>
    ELSE LET m == CHOOSE x \in S : \A y \in S \ {x} : StrLess(x, y)
         IN  <<m>> \o SortedStrs(S \ {m})

Range(s) == {s[i] : i \in 1..Len(s)}

\* Sequences over S of length at most n
SeqsUpTo(S, n) == UNION {[1..k -> S] : k \in 0..n}

---------------------------------------------------------------------------
(* Python dict *)

DictHas(d, k) == \E i \in 1..Len(d) : d[i][1] = k

DictGet(d, k) == d[CHOOSE i \in 1..Len(d) : d[i][1] = k][2]

DictPut(d, k, v) ==
    IF DictHas(d, k)
    THEN [i \in 1..Len(d) |-> IF d[i][1] = k THEN <<k, v>> ELSE d[i]]
    ELSE Append(d, <<k, v>>)

DictKeys(d) == [i \in 1..Len(d) |-> d[i][1]]

---------------------------------------------------------------------------
(* The METS document: ids, structLink, structMap (defoe/fmp/document.py).  *)
(* A value that a definition needs more than once is handed to a helper    *)
(* operator as an argument.                                                *)

\* A missing value (Python's None) where a string is expected
NoneStr == <<"None">>

IsAlnum(c) == c \in Digits \cup Letters \cup UpperLetters

\* PART_ID.sub("", string): every run of non-alphanumeric characters is removed
_clean_id(string) == SelectSeq(string, IsAlnum)

RECURSIVE zfill(_, _)
zfill(s, width) == IF Len(s) >= width THEN s ELSE zfill(<<"0">> \o s, width)

RECURSIVE Concat(_)
Concat(ss) == IF ss = <<>> THEN <<>> ELSE ss[1] \o Concat(Tail(ss))

\* for x in self.struct_links: for link in x.findall("mets:smLocatorLink")
AllLinks(groups) == Concat(groups)

\* Document.page_parts: cleaned locator id -> the locator's page-area label
RECURSIVE PagePartsFrom(_, _)
PagePartsFrom(ls, acc) ==
    IF ls = <<>> THEN acc
    ELSE PagePartsFrom(Tail(ls), DictPut(acc, _clean_id(ls[1].href), ls[1].label))

page_parts(m) == PagePartsFrom(AllLinks(m.links), <<>>)

\* The loop of Document.locators; current is NoneStr while it is unbound.
RECURSIVE LocatorsFrom(_, _, _)
RECURSIVE LocatorsStep(_, _, _, _)
LocatorsFrom(ls, current, acc) ==
    IF ls = <<>> THEN [err |-> None, val |-> acc]
    ELSE LocatorsStep(Tail(ls), current, acc, _clean_id(ls[1].href))

LocatorsStep(rest, current, acc, locator) ==
    IF  /\ ~StartsWith(locator, <<"p", "a">>)
        /\ ~StartsWith(locator, <<"p", "h", "y", "s">>)
    THEN LocatorsFrom(rest, locator, DictPut(acc, locator, <<>>))
    ELSE IF current = NoneStr
    THEN [err |-> "UnboundLocalError", val |-> <<>>]
    ELSE LocatorsFrom(rest, current,
             DictPut(acc, current, Append(DictGet(acc, current), locator)))

locators(m) == LocatorsFrom(AllLinks(m.links), NoneStr, <<>>)

\* The ids of one link group, cleaned: _tmp
GroupIdsOf(group) == [i \in 1..Len(group) |-> _clean_id(group[i].href)]

\* First loop of Document.article_id_lookup: _parts[_tmp[0]] = _tmp[1:]
RECURSIVE PartsFrom(_, _)
RECURSIVE PartsStep(_, _, _)
PartsFrom(groups, acc) ==
    IF groups = <<>> THEN [err |-> None, val |-> acc]
    ELSE PartsStep(Tail(groups), acc, GroupIdsOf(groups[1]))

PartsStep(rest, acc, _tmp) ==
    IF _tmp = <<>> THEN [err |-> "IndexError", val |-> <<>>]
    ELSE PartsFrom(rest, DictPut(acc, _tmp[1], Tail(_tmp)))

\* Second loop: self._article_id_lookup[pa_id] = art_id
RECURSIVE InvertList(_, _, _)
InvertList(lst, art_id, acc) ==
    IF lst = <<>> THEN acc
    ELSE InvertList(Tail(lst), art_id, DictPut(acc, lst[1], art_id))

RECURSIVE InvertParts(_, _)
InvertParts(parts, acc) ==
    IF parts = <<>> THEN acc
    ELSE InvertParts(Tail(parts), InvertList(parts[1][2], parts[1][1], acc))

InvertChecked(_parts) ==
    IF _parts.err # None THEN _parts
    ELSE [err |-> None, val |-> InvertParts(_parts.val, <<>>)]

article_id_lookup(m) == InvertChecked(PartsFrom(m.links, <<>>))

\* Document.pages_metadata: page code (ORDER, zero-filled) -> page division
RECURSIVE PagesMetadataFrom(_, _)
PagesMetadataFrom(pages, acc) ==
    IF pages = <<>> THEN acc
    ELSE PagesMetadataFrom(Tail(pages),
                           DictPut(acc, zfill(pages[1].order, 4), pages[1]))

pages_metadata(m) == PagesMetadataFrom(m.phys, <<>>)

page_codes(m) == DictKeys(pages_metadata(m))

\* dict.get(k) with None for a missing key (try ... except KeyError)
GetOrNone(d, k) == IF DictHas(d, k) THEN DictGet(d, k) ELSE NoneStr

\* Area.__init__: the ids resolved from the document's two lookups
Area(lookup, parts, page_code, area_id) ==
    [id         |-> area_id,
     page_code  |-> page_code,
     article_id |-> GetOrNone(lookup, area_id),
     page_part  |-> GetOrNone(parts, area_id)]

AreasOfDiv(lookup, parts, page_code, area_ids) ==
    [i \in 1..Len(area_ids) |-> Area(lookup, parts, page_code, area_ids[i])]

\* Document.scan_areas for one page code
scan_areas(m, page_code) ==
    AreasOfDiv(article_id_lookup(m).val, page_parts(m), page_code,
               DictGet(pages_metadata(m), page_code).areas)

AreasOfDivs(lookup, parts, divs) ==
    [i \in 1..Len(divs) |->
        <<divs[i][1], AreasOfDiv(lookup, parts, divs[i][1], divs[i][2].areas)>>]

\* Document.get_areas_by_page_code(): page code -> [Area]; every page of the
\* result was opened and parsed by get_page
get_areas_by_page_code(m) ==
    AreasOfDivs(article_id_lookup(m).val, page_parts(m), pages_metadata(m))

\* for areas in self.areas.values() for area in areas
AllAreas(areas) == Concat([i \in 1..Len(areas) |-> areas[i][2]])

ArticleIdsOf(all) ==
    IF \E i \in 1..Len(all) : all[i].article_id = NoneStr
    THEN [err |-> "AttributeError", val |-> <<>>]
    ELSE [err |-> None,
          val |-> SortedStrs({all[i].article_id : i \in
                    {j \in 1..Len(all) :
                        StartsWith(all[j].article_id, <<"a", "r", "t">>)}})]

\* Document.articles_ids
articles_ids(areas) == ArticleIdsOf(AllAreas(areas))

\* self._area_lookup = {y.id: y for x in self.areas.values() for y in x}
RECURSIVE AreaLookupFrom(_, _)
AreaLookupFrom(all, acc) ==
    IF all = <<>> THEN acc
    ELSE AreaLookupFrom(Tail(all), DictPut(acc, all[1].id, all[1]))

AreasAt(_area_lookup, ks) ==
    IF \E i \in 1..Len(ks) : ~DictHas(_area_lookup, ks[i])
    THEN [err |-> "KeyError", val |-> <<>>]
    ELSE [err |-> None,
          val |-> [i \in 1..Len(ks) |-> DictGet(_area_lookup, ks[i])]]

\* [self._area_lookup[k] for k, v in self.article_id_lookup.items()
\*  if v == art_id]
AreasOfArticle(_area_lookup, lookup, art_id) ==
    AreasAt(_area_lookup,
            SelectSeq(DictKeys(lookup), LAMBDA k : DictGet(lookup, k) = art_id))

AllOrError(ids, each, error) ==
    IF \E i \in 1..Len(each) : each[i].err # None
    THEN [err |-> error, val |-> <<>>]
    ELSE [err |-> None,
          val |-> [i \in 1..Len(each) |-> <<ids[i], each[i].val>>]]

AreasOfArticles(_area_lookup, lookup, ids) ==
    AllOrError(ids,
               [i \in 1..Len(ids) |->
                   AreasOfArticle(_area_lookup, lookup, ids[i])],
               "KeyError")

\* Document._article_id_to_area_lookup: article id -> [Area]
_article_id_to_area_lookup(areas, lookup, ids) ==
    AreasOfArticles(AreaLookupFrom(AllAreas(areas), <<>>), lookup, ids)

---------------------------------------------------------------------------
(* Text blocks of a page (defoe/fmp/textblock.py, defoe/fmp/area.py) *)

BlockOf(page_code, tb_id, area) ==
    IF Len(area) > 1
    THEN [err |-> "RuntimeError", id |-> tb_id, page_code |-> page_code,
          page_area |-> NoneStr]
    ELSE [err |-> None, id |-> tb_id, page_code |-> page_code,
          page_area |-> IF Len(area) = 1 THEN area[1].page_part ELSE NoneStr]

\* TextBlock.__init__, lines 74-91: page_areas is self.page.areas
TextBlock(page_areas, page_code, tb_id) ==
    BlockOf(page_code, tb_id, SelectSeq(page_areas, LAMBDA a : a.id = tb_id))

\* Area.page_textblocks: list(self.page.textblocks), tb_ids the ids of the
\* TextBlock elements of the page
page_textblocks(page_areas, page_code, tb_ids) ==
    [i \in 1..Len(tb_ids) |-> TextBlock(page_areas, page_code, tb_ids[i])]

FirstOf(tbs, own) ==
    IF \E i \in 1..Len(tbs) : tbs[i].err # None
    THEN [err |-> "RuntimeError", val |-> <<>>]
    ELSE [err |-> None, val |-> IF own = <<>> THEN <<>> ELSE <<own[1]>>]

FirstWithId(tbs, id) == FirstOf(tbs, SelectSeq(tbs, LAMBDA tb : tb.id = id))

\* Area.textblock: the first text block of the area's page with the area's
\* id; val is <<>> for None
textblock(m, pages, area) ==
    FirstWithId(page_textblocks(scan_areas(m, area.page_code),
                                area.page_code, pages[area.page_code]),
                area.id)

JoinOrError(each) ==
    IF \E i \in 1..Len(each) : each[i].err # None
    THEN [err |-> "RuntimeError", val |-> <<>>]
    ELSE [err |-> None, val |-> Concat([i \in 1..Len(each) |-> each[i].val])]

\* [area.textblock for area in areas if area.textblock]
TextblocksOf(m, pages, areas) ==
    JoinOrError([i \in 1..Len(areas) |-> textblock(m, pages, areas[i])])

\* Document.articles, collected: [(art_id, [TextBlock])]
articles(m, pages, by_article) ==
    AllOrError(DictKeys(by_article),
               [i \in 1..Len(by_article) |->
                   TextblocksOf(m, pages, by_article[i][2])],
               "RuntimeError")

\* The elements of s, each at its first position
RECURSIVE Dedup(_)
Dedup(s) ==
    IF s = <<>> THEN <<>>
    ELSE IF s[Len(s)] \in Range(SubSeq(s, 1, Len(s) - 1))
    THEN Dedup(SubSeq(s, 1, Len(s) - 1))
    ELSE Append(Dedup(SubSeq(s, 1, Len(s) - 1)), s[Len(s)])

Min(S) == CHOOSE i \in S : \A j \in S : i <= j

\* The pages whose areas are read while the text blocks of these areas are
\* built (TextBlock.__init__ reads self.page.areas, Page.areas asks the
\* document, which opens the page again), up to the first failing area.
PagesReadFor(m, pages, areas, cached) ==
    SelectSeq(
        Dedup([i \in 1..Min({Len(areas)} \cup
                   {j \in 1..Len(areas) :
                       textblock(m, pages, areas[j]).err # None}) |->
               areas[i].page_code]),
        LAMBDA c : pages[c] # <<>> /\ c \notin cached)

---------------------------------------------------------------------------
(* The documents the model is checked on *)

MaxGroups == 2     \* link groups in structLink
MaxLinks == 2      \* area locators in a link group, after the article locator
MaxPages == 2      \* pages in the physical structural map
MaxAreas == 2      \* areas on a page
MaxRequests == 1   \* pages the caller asks for with get_page

art1 == <<"a", "r", "t", "1">>
art2 == <<"a", "r", "t", "2">>
div1 == <<"d", "1">>
pa1 == <<"p", "a", "1">>
pa2 == <<"p", "a", "2">>

ArticlePool == {art1, art2}
AreaPool == {pa1, pa2}
LogicalPool == {art1, div1}

Injective(s) == \A i, j \in 1..Len(s) : s[i] = s[j] => i = j

\* smLocatorLink: xlink:href is "#" + id, xlink:label names the page area
Locator(id, g, i) ==
    [href |-> <<"#">> \o id, label |-> <<"L", ToString(g), ToString(i)>>]

GroupIds ==
    {<<a>> \o r : a \in ArticlePool, r \in SeqsUpTo(AreaPool, MaxLinks)}

\* structLink: up to MaxGroups link groups, each an article locator followed
\* by up to MaxLinks area locators
StructLinks ==
    {[g \in 1..Len(ids) |->
        [i \in 1..Len(ids[g]) |-> Locator(ids[g][i], g, i)]] :
     ids \in SeqsUpTo(GroupIds, MaxGroups)}

\* Page divisions in ORDER 1, 2, ...; area ids are XML IDs, hence distinct
PhysMaps ==
    {[p \in 1..Len(aa) |-> [order |-> <<ToString(p)>>, areas |-> aa[p]]] :
     aa \in {x \in SeqsUpTo(SeqsUpTo(AreaPool, MaxAreas), MaxPages) :
                Injective(Concat(x))}}

\* ids of the ARTICLE-typed divisions of the logical structural map
struct_map_logical(m) == m.logical

PageCodeSet(m) == Range(page_codes(m))

\* The subsequences of s
RECURSIVE SubSeqs(_)
SubSeqs(s) ==
    IF s = <<>> THEN {<<>>}
    ELSE SubSeqs(Tail(s)) \cup {<<s[1]>> \o t : t \in SubSeqs(Tail(s))}

\* ALTO pages: a page has a text block for some of its areas, with the
\* area's id, in the order of the areas
AltoPages(m) ==
    {f \in [PageCodeSet(m) -> SeqsUpTo(AreaPool, MaxAreas)] :
        \A c \in PageCodeSet(m) :
            f[c] \in SubSeqs(DictGet(pages_metadata(m), c).areas)}

NoDoc ==
    [state |-> "none", error |-> None, num_pages |-> 0, num_articles |-> 0,
     _areas |-> <<>>, _article_id_lookup |-> <<>>, _articles_ids |-> <<>>,
     page_areas |-> {}]

NoResult == [op |-> None, err |-> None, val |-> <<>>]

IdleRest == call = <<>> /\ matches = <<>> /\ page = <<>> /\ listing = <<>>

IdleYears ==
    /\ dateText = NoneStr
    /\ placeText = NoneStr
    /\ years = [op |-> None, val |-> <<>>]

IdleBlock ==
    /\ block = [tokens |-> <<>>, width |-> 0, height |-> 0]
    /\ bbox = <<>>

IdleArchive ==
    /\ archive = <<>>
    /\ gen = [state |-> "none", next |-> 1]
    /\ got = [iter |-> <<>>, index |-> {}, raised |-> {}]

Init ==
    /\ mets \in [phys : PhysMaps, logical : SUBSET LogicalPool,
                 links : StructLinks]
    /\ alto \in AltoPages(mets)
    /\ doc = NoDoc
    /\ parsed = <<>>
    /\ requested = FALSE
    /\ result = NoResult
    /\ IdleYears
    /\ IdleBlock
    /\ IdleArchive
    /\ IdleRest

---------------------------------------------------------------------------
(* Document: construction and accessors (defoe/fmp/document.py) *)

FirstError(errs) ==
    IF \A i \in 1..Len(errs) : errs[i] = None THEN None
    ELSE errs[Min({i \in 1..Len(errs) : errs[i] # None})]

Constructed(codes, lookup, areas, ids, error) ==
    /\ parsed' = <<(<<"mets">>)>> \o
                 [i \in 1..Len(codes) |-> <<"alto", codes[i]>>]
    /\ doc' = [state |-> IF error = None THEN "ok" ELSE "failed",
               error |-> error,
               num_pages |-> Len(codes),
               num_articles |-> Len(ids.val),
               _areas |-> areas,
               _article_id_lookup |-> lookup.val,
               _articles_ids |-> ids.val,
               page_areas |-> {}]

Construct(codes, lookup, areas, ids, loc) ==
    Constructed(codes, lookup, areas, ids,
                FirstError(<<lookup.err, ids.err, loc.err>>))

ConstructFrom(m, areas) ==
    Construct(page_codes(m), article_id_lookup(m), areas, articles_ids(areas),
              locators(m))

\* Document.__init__.  The METS stream is parsed; num_articles reads
\* articles_ids, which reads areas, which opens every page with get_page;
\* the aliases then read parts_coord, page_parts, locators, article_id_lookup.
NewDocument ==
    /\ doc.state = "none"
    /\ ConstructFrom(mets, get_areas_by_page_code(mets))
    /\ UNCHANGED <<mets, alto, requested, result, dateText, placeText, years,
                   block, bbox, archive, gen, got,
                   call, matches, page, listing>>

DocUnchanged ==
    UNCHANGED <<mets, alto, dateText, placeText, years, block, bbox,
                archive, gen, got,
                   call, matches, page, listing>>

Returned(op, r) == result' = [op |-> op, err |-> r.err, val |-> r.val]

\* document.locators
ReadLocators ==
    /\ doc.state = "ok"
    /\ Returned("locators", locators(mets))
    /\ UNCHANGED <<doc, parsed, requested>>
    /\ DocUnchanged

\* document.article_id_lookup
ReadArticleIdLookup ==
    /\ doc.state = "ok"
    /\ Returned("article_id_lookup",
                [err |-> None, val |-> doc._article_id_lookup])
    /\ UNCHANGED <<doc, parsed, requested>>
    /\ DocUnchanged

\* document.articles_ids
ReadArticlesIds ==
    /\ doc.state = "ok"
    /\ Returned("articles_ids", [err |-> None, val |-> doc._articles_ids])
    /\ UNCHANGED <<doc, parsed, requested>>
    /\ DocUnchanged

\* document.get_page(code): Page.__init__ opens and parses the page stream
GetPage ==
    /\ doc.state = "ok"
    /\ Len(parsed) < 1 + doc.num_pages + MaxRequests
    /\ \E code \in PageCodeSet(mets) :
          /\ parsed' = Append(parsed, <<"alto", code>>)
          /\ Returned("get_page", [err |-> None, val |-> code])
    /\ requested' = TRUE
    /\ UNCHANGED doc
    /\ DocUnchanged

ArticlesRead(read) ==
    /\ parsed' = parsed \o [i \in 1..Len(read) |-> <<"alto", read[i]>>]
    /\ doc' = [doc EXCEPT !.page_areas = @ \cup Range(read)]

ArticlesOf(by_article) ==
    IF by_article.err # None
    THEN /\ Returned("articles", by_article)
         /\ UNCHANGED <<doc, parsed>>
    ELSE /\ Returned("articles", articles(mets, alto, by_article.val))
         /\ ArticlesRead(PagesReadFor(mets, alto, AllAreas(by_article.val),
                                      doc.page_areas))

\* list(document.articles)
ReadArticles ==
    /\ doc.state = "ok"
    /\ ArticlesOf(_article_id_to_area_lookup(
                      doc._areas, doc._article_id_lookup, doc._articles_ids))
    /\ requested' = TRUE
    /\ DocUnchanged

Next ==
    \/ NewDocument
    \/ ReadLocators
    \/ ReadArticleIdLookup
    \/ ReadArticlesIds
    \/ GetPage
    \/ ReadArticles

Spec == Init /\ [][Next]_vars

IdleDoc ==
    /\ mets = [phys |-> <<>>, logical |-> {}, links |-> <<>>]
    /\ alto = <<>>
    /\ doc = NoDoc
    /\ parsed = <<>>
    /\ requested = FALSE
    /\ result = NoResult

---------------------------------------------------------------------------
(* Years of a document (defoe/fmp/document.py, defoe/fmp/patterns.py) *)

IsDigit(c) == c \in Digits

DigitVal(c) == Ord(c) - Ord("0")

\* int(s) for a string of digits
RECURSIVE int(_)
int(s) ==
    IF s = <<>> THEN 0
    ELSE 10 * int(SubSeq(s, 1, Len(s) - 1)) + DigitVal(s[Len(s)])

\* DATE_LONG, 1[6-9]\d\d, matching at position i
IsLongAt(text, i) ==
    /\ i + 3 <= Len(text)
    /\ text[i] = "1"
    /\ text[i + 1] \in {"6", "7", "8", "9"}
    /\ IsDigit(text[i + 2])
    /\ IsDigit(text[i + 3])

IsSep(c) == c \in {"-", "/"}

\* 0[1-9]|1[0-2]
IsMonth(a, b) ==
    \/ a = "0" /\ b \in Digits \ {"0"}
    \/ a = "1" /\ b \in {"0", "1", "2"}

\* 0[1-9]|[12]\d|3[01]
IsDay(a, b) ==
    \/ a = "0" /\ b \in Digits \ {"0"}
    \/ a \in {"1", "2"} /\ IsDigit(b)
    \/ a = "3" /\ b \in {"0", "1"}

\* DATE matching at position i
IsDateAt(text, i) ==
    /\ i + 9 <= Len(text)
    /\ IsLongAt(text, i)
    /\ IsSep(text[i + 4])
    /\ IsMonth(text[i + 5], text[i + 6])
    /\ IsSep(text[i + 7])
    /\ IsDay(text[i + 8], text[i + 9])

\* DATE_PATTERNS.standard.match(text): a match at the start of the text
standard_match(text) == IsDateAt(text, 1)

\* DATE_PATTERNS.long.split(text): the text before the first year, then each
\* year (the pattern's group) followed by the text up to the next year
RECURSIVE LongSplit(_, _, _)
LongSplit(text, i, start) ==
    IF i > Len(text) THEN <<SubSeq(text, start, Len(text))>>
    ELSE IF IsLongAt(text, i)
    THEN <<SubSeq(text, start, i - 1), SubSeq(text, i, i + 3)>> \o
         LongSplit(text, i + 4, i + 4)
    ELSE LongSplit(text, i + 1, start)

long_split(text) == LongSplit(text, 1, 1)

\* DATE_PATTERNS.short.findall(rest): pairs of digits, left to right, disjoint
RECURSIVE ShortFindall(_, _)
ShortFindall(rest, i) ==
    IF i + 1 > Len(rest) THEN <<>>
    ELSE IF IsDigit(rest[i]) /\ IsDigit(rest[i + 1])
    THEN <<SubSeq(rest, i, i + 1)>> \o ShortFindall(rest, i + 2)
    ELSE ShortFindall(rest, i + 1)

short_findall(rest) == ShortFindall(rest, 1)

\* results.append(int(century + short_year)) for each short year
ShortYears(century, short_years) ==
    [i \in 1..Len(short_years) |-> int(century \o short_years[i])]

\* for year, rest in zip(chunks, chunks)
RECURSIVE YearsOfChunks(_)
YearsOfChunks(chunks) ==
    IF Len(chunks) < 2 THEN <<>>
    ELSE <<int(chunks[1])>> \o
         ShortYears(SubSeq(chunks[1], 1, 2), short_findall(chunks[2])) \o
         YearsOfChunks(SubSeq(chunks, 3, Len(chunks)))

\* Python's sorted on a list of integers: duplicates are kept
RECURSIVE Insert(_, _)
Insert(x, s) ==
    IF s = <<>> THEN <<x>>
    ELSE IF x <= s[1] THEN <<x>> \o s
    ELSE <<s[1]>> \o Insert(x, Tail(s))

RECURSIVE sorted(_)
sorted(s) == IF s = <<>> THEN <<>> ELSE Insert(s[1], sorted(Tail(s)))

\* sorted(set(results))
RECURSIVE SortedSet(_)
SortedSet(S) ==
    IF S = {} THEN <<>>
    ELSE <<Min(S)>> \o SortedSet(S \ {Min(S)})

\* Document._parse_year; re.match on None raises TypeError, which is caught
_parse_year(text) ==
    IF text = NoneStr THEN <<>>
    ELSE IF standard_match(text) THEN <<int(SubSeq(text, 1, 4))>>
    ELSE SortedSet(Range(YearsOfChunks(Tail(long_split(text)))))

\* Document._get_years: the list of years
_get_years(date, place) == sorted(_parse_year(date) \o _parse_year(place))

MaxPieces == 5        \* pieces in a date text
MaxPlacePieces == 1   \* pieces in a place text

Pieces ==
    {<<"1", "8", "7", "0">>, <<"1", "8", "4", "6">>, <<"4", "7">>,
     <<"-", "0", "9">>, <<"-", "0", "1">>, <<"/", "0", "1">>, <<" ">>, <<"-">>}

\* The examples of _parse_year's documentation
Examples ==
    {<<"1", "8", "6", "2", ",", " ", "[", "1", "8", "6", "1", "]">>,
     <<"1", "8", "4", "7", " ", "[", "1", "8", "4", "6", ",", " ", "4", "7", "]">>,
     <<"1", "8", "7", "3", "-", "8", "0">>,
     <<"1", "8", "7", "0", "-", "0", "9", "-", "0", "1">>}

PlacePieces == {<<"1", "8", "7", "0">>, <<" ">>}

TextsOf(P, n) == {Concat(ps) : ps \in SeqsUpTo(P, n)}

DateTexts == TextsOf(Pieces, MaxPieces) \cup Examples \cup {NoneStr}

PlaceTexts == TextsOf(PlacePieces, MaxPlacePieces) \cup {NoneStr}

InitYear ==
    /\ dateText \in DateTexts
    /\ placeText \in PlaceTexts
    /\ years = [op |-> None, val |-> <<>>]
    /\ IdleDoc
    /\ IdleBlock
    /\ IdleArchive
    /\ IdleRest

\* Document._parse_year(date)
ParseYear ==
    /\ years.op = None
    /\ years' = [op |-> "_parse_year", val |-> _parse_year(dateText)]
    /\ UNCHANGED <<mets, alto, doc, parsed, requested, result, dateText,
                   placeText, block, bbox, archive, gen, got,
                   call, matches, page, listing>>

\* Document._get_years(), with the document's date and place
GetYears ==
    /\ years.op = None
    /\ years' = [op |-> "_get_years", val |-> _get_years(dateText, placeText)]
    /\ UNCHANGED <<mets, alto, doc, parsed, requested, result, dateText,
                   placeText, block, bbox, archive, gen, got,
                   call, matches, page, listing>>

NextYear == ParseYear \/ GetYears

SpecYear == InitYear /\ [][NextYear]_vars

---------------------------------------------------------------------------
(* Bounding box of a text block's tokens (defoe/fmp/textblock.py) *)

MaxTokens == 2   \* tokens in a text block
MaxCoord == 1    \* HPOS and VPOS of a token
MaxSize == 1     \* WIDTH and HEIGHT of a token

\* Page.width and Page.height of the block's page
PageWidth == MaxCoord + MaxSize
PageHeight == PageWidth + 1

\* TextBlock.tokens: (x, y, width, height) of each String, content left out
Tokens == (0..MaxCoord) \X (0..MaxCoord) \X (0..MaxSize) \X (0..MaxSize)

Max(S) == CHOOSE i \in S : \A j \in S : i >= j

\* min(xs) and max(xs) of a non-empty list
min(xs) == Min(Range(xs))
max(xs) == Max(Range(xs))

\* The left edges only, without the right edges x[0] + x[2]
TokenXsLeftEdges(tokens) == [i \in 1..Len(tokens) |-> tokens[i][1]]

\* xs = [x[0] for x in self.tokens] + [x[0] + x[2] for x in self.tokens]
TokenXs(tokens) ==
    [i \in 1..Len(tokens) |-> tokens[i][1]] \o
    [i \in 1..Len(tokens) |-> tokens[i][1] + tokens[i][3]]

\* ys = [x[1] for x in self.tokens] + [x[1] + x[3] for x in self.tokens]
TokenYs(tokens) ==
    [i \in 1..Len(tokens) |-> tokens[i][2]] \o
    [i \in 1..Len(tokens) |-> tokens[i][2] + tokens[i][4]]

BBoxOf(xs, ys, width, height) ==
    IF xs = <<>> \/ ys = <<>> THEN <<0, 0, width, height>>
    ELSE <<min(xs), min(ys), max(xs), max(ys)>>

\* TextBlock.get_tokens_bbox
get_tokens_bbox(tb) ==
    BBoxOf(TokenXs(tb.tokens), TokenYs(tb.tokens), tb.width, tb.height)

InitBBox ==
    /\ block \in [tokens : SeqsUpTo(Tokens, MaxTokens),
                  width : {PageWidth}, height : {PageHeight}]
    /\ bbox = <<>>
    /\ IdleDoc
    /\ IdleYears
    /\ IdleArchive
    /\ IdleRest

\* textblock.get_tokens_bbox()
GetTokensBBox ==
    /\ bbox = <<>>
    /\ bbox' = get_tokens_bbox(block)
    /\ UNCHANGED <<mets, alto, doc, parsed, requested, result, dateText,
                   placeText, years, block, archive, gen, got,
                   call, matches, page, listing>>

NextBBox == GetTokensBBox

SpecBBox == InitBBox /\ [][NextBBox]_vars

---------------------------------------------------------------------------
(* Documents of an archive (defoe/alto/archive.py) *)

MaxDocs == 3   \* documents in an archive

\* A document is "good" when Document(code, archive) returns and "bad" when
\* it raises: its METS stream is missing or does not parse
DocKinds == {"good", "bad"}

InitArchive ==
    /\ archive \in SeqsUpTo(DocKinds, MaxDocs)
    /\ gen = [state |-> "none", next |-> 1]
    /\ got = [iter |-> <<>>, index |-> {}, raised |-> {}]
    /\ IdleDoc
    /\ IdleYears
    /\ IdleBlock
    /\ IdleRest

ArchiveUnchanged ==
    UNCHANGED <<mets, alto, doc, parsed, requested, result, dateText,
                placeText, years, block, bbox, archive,
                call, matches, page, listing>>

\* iter(archive): __iter__ is a generator function, nothing runs yet
Iter ==
    /\ gen.state # "suspended"
    /\ gen' = [state |-> "suspended", next |-> 1]
    /\ got' = [got EXCEPT !.iter = <<>>]
    /\ ArchiveUnchanged

\* The generator resumed on a document: yield Document(document, self), or
\* the constructor's exception leaves the generator, which is then finished
Yield(kind) ==
    IF kind = "good"
    THEN /\ gen' = [gen EXCEPT !.next = @ + 1]
         /\ got' = [got EXCEPT !.iter = Append(@, gen.next)]
    ELSE /\ gen' = [gen EXCEPT !.state = "finished"]
         /\ got' = [got EXCEPT !.raised = @ \cup {gen.next}]

\* next(generator)
GenNext ==
    /\ gen.state = "suspended"
    /\ IF gen.next > Len(archive)
       THEN /\ gen' = [gen EXCEPT !.state = "finished"]
            /\ UNCHANGED got
       ELSE Yield(archive[gen.next])
    /\ ArchiveUnchanged

Construct1(kind, index) ==
    IF kind = "good"
    THEN got' = [got EXCEPT !.index = @ \cup {index}]
    ELSE got' = [got EXCEPT !.raised = @ \cup {index}]

\* archive[index - 1]: Document(list(self.document_codes.keys())[index], self)
GetItem ==
    /\ \E index \in 1..Len(archive) : Construct1(archive[index], index)
    /\ UNCHANGED gen
    /\ ArchiveUnchanged

NextArchive == Iter \/ GenNext \/ GetItem

SpecArchive == InitArchive /\ [][NextArchive]_vars

---------------------------------------------------------------------------
(* Matching tokens of a text block (defoe/fmp/textblock.py,                *)
(* defoe/query_utils.py).  thefuzz and NLTK are libraries outside the      *)
(* repository: their functions are computed here on the words of the model.*)

MIN_RATIO == 85

\* str.lower; "C" is the upper-case letter of the model
lower(word) == [i \in 1..Len(word) |-> IF word[i] = "C" THEN "c" ELSE word[i]]

\* query_utils.normalize: NON_AZ_REGEXP is [^a-z]
normalize(word) == SelectSeq(lower(word), LAMBDA ch : ch \in Letters)

\* query_utils.normalize_including_numbers: NON_AZ_19_REGEXP is [^a-z0-9]
normalize_including_numbers(word) ==
    SelectSeq(lower(word), LAMBDA ch : ch \in Letters \cup Digits)

\* query_utils.lemmatize: WordNetLemmatizer gives the singular of a noun it
\* knows and leaves every other word as it is
lemmatize(word) == IF word = <<"c", "a", "t", "s">> THEN <<"c", "a", "t">> ELSE word

\* query_utils.stem: PorterStemmer.stem lower-cases the word and removes a
\* plural s from a word of more than two letters
stem(word) ==
    IF Len(word) > 2 /\ lower(word)[Len(word)] = "s"
                     /\ lower(word)[Len(word) - 1] # "s"
    THEN SubSeq(lower(word), 1, Len(word) - 1)
    ELSE lower(word)

\* if flag: x = f(x)
Apply(flag, f(_), x) == IF flag THEN f(x) ELSE x

\* Lines 416-425
Normalised(token, c) ==
    IF c.normalise /\ c.include_numbers THEN normalize(token)
    ELSE IF c.normalise /\ ~c.include_numbers
    THEN normalize_including_numbers(token)
    ELSE token

\* TextBlock._process_tokens
_process_tokens(tokens, c) ==
    [i \in 1..Len(tokens) |->
        <<tokens[i][1], tokens[i][2], tokens[i][3], tokens[i][4],
          Apply(c.stem, stem,
                Apply(c.lemmatise, lemmatize, Normalised(tokens[i][5], c)))>>]

\* Length of the longest common subsequence of two strings
RECURSIVE LCS(_, _)
LCS(s, t) ==
    IF s = <<>> \/ t = <<>> THEN 0
    ELSE IF s[1] = t[1] THEN 1 + LCS(Tail(s), Tail(t))
    ELSE Max({LCS(Tail(s), t), LCS(s, Tail(t))})

\* fuzz.ratio: round(100 * 2 * matches / total length), 0 for an empty string
ratio(s1, s2) ==
    IF s1 = <<>> \/ s2 = <<>> THEN 0
    ELSE (400 * LCS(s1, s2) + Len(s1) + Len(s2)) \div (2 * (Len(s1) + Len(s2)))

Windows(s, n) == {SubSeq(s, i, i + n - 1) : i \in 1..(Len(s) - n + 1)}

\* fuzz.partial_ratio: the shorter string against the best window of the longer
PartialOf(short, long) ==
    IF short = <<>> THEN 0
    ELSE Max({ratio(short, w) : w \in Windows(long, Len(short))})

partial_ratio(s1, s2) ==
    IF Len(s1) <= Len(s2) THEN PartialOf(s1, s2) ELSE PartialOf(s2, s1)

\* utils.full_process on one word: lower case, letters and digits only
full_process(s) == SelectSeq(lower(s), LAMBDA ch : ch \in Letters \cup Digits)

FuzzMethods ==
    {<<"partial_ratio">>, <<"ratio">>, <<"token_sort_ratio">>,
     <<"token_set_ratio">>}

\* fuzz_func(token, match_word), lines 558-565; on two single words
\* fuzz.token_sort_ratio and fuzz.token_set_ratio are the ratio of the
\* processed words
fuzz_func(fuzz_method, token, match_word) ==
    IF fuzz_method = <<"partial_ratio">> THEN partial_ratio(token, match_word)
    ELSE IF fuzz_method = <<"ratio">> THEN ratio(token, match_word)
    ELSE ratio(full_process(token), full_process(match_word))

\* re.compile(match_word, flags=re.IGNORECASE).search(token), for a match_word
\* of letters and digits
search(match_word, token) ==
    lower(match_word) \in Windows(lower(token), Len(match_word))

\* list(set(token)): the order of a set of str is that of the process's
\* string hashes, here ascending or descending
ListOfSet(words, hashseed) ==
    IF hashseed = 0 THEN SortedStrs(Range(words))
    ELSE [i \in 1..Cardinality(Range(words)) |->
             SortedStrs(Range(words))[Cardinality(Range(words)) + 1 - i]]

\* nav, lines 516-524; the TextBlock itself is written "self"
Nav(tb, add_textblock) ==
    <<tb.filename, tb.document_code, tb.page_code, tb.id>> \o
    (IF add_textblock THEN <<"self">> ELSE <<>>)

\* The results for one match word, lines 543-556 and 574-586
MatchesOfWord(nav, tokens, c, match_word) ==
    [i \in 1..Len(tokens) |->
        <<nav, i - 1, tokens[i][1], tokens[i][2], tokens[i][3], tokens[i][4],
          tokens[i][5],
          IF c.regex
          THEN (IF search(match_word, tokens[i][5]) THEN 100 ELSE 0)
          ELSE fuzz_func(c.fuzz_method, tokens[i][5], match_word)>>]

AllMatches(nav, tokens, c, match_words) ==
    Concat([k \in 1..Len(match_words) |->
               MatchesOfWord(nav, tokens, c, match_words[k])])

\* Python's order on the result tuples, from the second element on (the
\* first, nav, is the same object in all of them)
RECURSIVE TupleLess(_, _, _)
TupleLess(a, b, i) ==
    IF i > 8 THEN FALSE
    ELSE IF a[i] = b[i] THEN TupleLess(a, b, i + 1)
    ELSE IF i = 7 THEN StrLess(a[7], b[7])
    ELSE a[i] < b[i]

\* As if sort_reverse were ignored
ScoreBeforeAscending(x, y, reverse) == x[8] < y[8]

\* x goes before y when sorting by score
ScoreBefore(x, y, reverse) == IF reverse THEN x[8] > y[8] ELSE x[8] < y[8]

\* sorted(matches) in regex mode, sorted(matches, key=lambda x: x[7],
\* reverse=sort_reverse) otherwise: equal keys keep their order
RECURSIVE InsertMatch(_, _, _)
InsertMatch(x, s, c) ==
    IF s = <<>> THEN <<x>>
    ELSE IF (IF c.regex THEN TupleLess(x, s[1], 2)
             ELSE ScoreBefore(x, s[1], c.sort_reverse))
    THEN <<x>> \o s
    ELSE <<s[1]>> \o InsertMatch(x, Tail(s), c)

RECURSIVE SortedMatches(_, _)
SortedMatches(s, c) ==
    IF s = <<>> THEN <<>>
    ELSE InsertMatch(s[Len(s)], SortedMatches(SubSeq(s, 1, Len(s) - 1), c), c)

\* As if the fuzzy threshold were exclusive
PassesStrictly(x, c) == IF c.regex THEN x[8] # 0 ELSE x[8] > c.min_ratio

\* Lines 599-602
Passes(x, c) == IF c.regex THEN x[8] # 0 ELSE x[8] >= c.min_ratio

Filtered(ms, c) ==
    IF c.all_results THEN ms ELSE SelectSeq(ms, LAMBDA x : Passes(x, c))

\* Lines 507-514
MatchWords(token, hashseed) ==
    IF token.kind = "str" THEN [err |-> None, val |-> <<token.words[1]>>]
    ELSE IF token.kind = "list"
    THEN [err |-> None, val |-> ListOfSet(token.words, hashseed)]
    ELSE [err |-> "SyntaxError", val |-> <<>>]

\* Lines 516-611
MatchWith(tb, c, match_words) ==
    IF match_words.err # None THEN match_words
    ELSE IF ~c.regex /\ c.fuzz_method \notin FuzzMethods
    THEN [err |-> "SyntaxError", val |-> <<>>]
    ELSE IF ~c.sort_results
    THEN [err |-> None,
          val |-> Filtered(AllMatches(Nav(tb, c.add_textblock),
                                      _process_tokens(tb.tokens, c),
                                      c, match_words.val), c)]
    ELSE [err |-> None,
          val |-> SortedMatches(
                      Filtered(AllMatches(Nav(tb, c.add_textblock),
                                          _process_tokens(tb.tokens, c),
                                          c, match_words.val), c), c)]

\* TextBlock.match
match(tb, c) == MatchWith(tb, c, MatchWords(c.token, c.hashseed))

\* As if the processed tokens were stored back into the block
TokensInPlace(tokens, processed) == processed

\* tokens = self.tokens.copy(): the block's own tokens stay as they are
TokensAfter(tokens, processed) == tokens

MaxMatchTokens == 2   \* tokens in the text block
MaxCalls == 2         \* calls of match with the same arguments

\* The words of the model: token contents and candidate strings
Words ==
    [Cat1 |-> <<"C", "a", "t", "1">>, cats |-> <<"c", "a", "t", "s">>,
     atdot |-> <<"a", "t", ".">>, cat |-> <<"c", "a", "t">>,
     at1 |-> <<"a", "t", "1">>]

\* String elements: HPOS, VPOS, WIDTH, HEIGHT, CONTENT
MatchTokens ==
    {<<0, 0, 1, 1, Words.Cat1>>, <<1, 0, 2, 1, Words.cats>>,
     <<0, 1, 1, 2, Words.atdot>>}

\* The token argument: a string, a list of strings, or something else
TokenArgs ==
    {[kind |-> "str", words |-> <<Words.cat>>],
     [kind |-> "list", words |-> <<Words.cat, Words.cat>>],
     [kind |-> "list", words |-> <<Words.cat, Words.at1>>],
     [kind |-> "other", words |-> <<>>]}

MatchBlocks ==
    [tokens : {t \in SeqsUpTo(MatchTokens, MaxMatchTokens) : Injective(t)},
     width : {PageWidth}, height : {PageHeight},
     filename : {"archive"}, document_code : {"doc"},
     page_code : {"0001"}, id : {"pa1"}]

\* The arguments of match; the order of a set matters for two words only
Calls ==
    {c \in [token : TokenArgs, normalise : BOOLEAN, include_numbers : BOOLEAN,
            lemmatise : BOOLEAN, stem : BOOLEAN,
            fuzz_method : FuzzMethods \cup {<<"levenshtein">>},
            min_ratio : {MIN_RATIO, MIN_RATIO + 1},
            all_results : BOOLEAN, sort_results : BOOLEAN,
            sort_reverse : BOOLEAN, add_textblock : BOOLEAN, regex : BOOLEAN,
            hashseed : {0, 1}] :
        c.hashseed = 1 => Cardinality(Range(c.token.words)) > 1}

InitMatch ==
    /\ block \in MatchBlocks
    /\ call \in Calls
    /\ matches = <<>>
    /\ bbox = <<>>
    /\ page = <<>>
    /\ listing = <<>>
    /\ IdleDoc
    /\ IdleYears
    /\ IdleArchive

\* The call returned or raised r on a block with these tokens
Matched(tokens, r) ==
    matches' = Append(matches, [seen |-> tokens, err |-> r.err, val |-> r.val])

\* textblock.match(**call)
Match ==
    /\ Len(matches) < MaxCalls
    /\ Matched(block.tokens, match(block, call))
    /\ block' = [block EXCEPT !.tokens =
                    TokensAfter(@, _process_tokens(block.tokens, call))]
    /\ UNCHANGED <<mets, alto, doc, parsed, requested, result, dateText,
                   placeText, years, bbox, archive, gen, got, call, page,
                   listing>>

NextMatch == Match

SpecMatch == InitMatch /\ [][NextMatch]_vars

---------------------------------------------------------------------------
(* A page, its areas and its text blocks (defoe/fmp/page.py,               *)
(* defoe/fmp/textblock.py, defoe/fmp/area.py)                              *)

MaxPageAreas == 2    \* areas of the page
MaxBlocks == 2       \* TextBlock elements of the page

\* What Page.areas holds: one Area per file pointer of an area div
\* (Document.scan_areas), so that two areas may have the same id
PageAreas ==
    {[id |-> pa1, type |-> <<"r">>, coords |-> <<0, 0, 1, 1>>,
      page_part |-> <<"p", "1">>],
     [id |-> pa1, type |-> <<"p">>, coords |-> <<1, 0, 2, 1>>,
      page_part |-> <<"p", "2">>],
     [id |-> pa2, type |-> <<"r">>, coords |-> <<0, 1, 1, 2>>,
      page_part |-> NoneStr]}

\* The value of an attribute of the Page element: missing, not a number,
\* or a number
Attrs == {NoneStr, <<"a">>, <<"7">>}

\* int(v) and float(v) on an attribute: TypeError for None, ValueError for
\* a string that is not a number
NumberOf(v) ==
    IF v = NoneStr THEN [err |-> "TypeError", val |-> 0]
    ELSE IF \E i \in 1..Len(v) : ~IsDigit(v[i])
    THEN [err |-> "ValueError", val |-> 0]
    ELSE [err |-> None, val |-> int(v)]

\* Page.__init__, lines 77-109: width, height and page_confidence
PageInit(p) ==
    IF NumberOf(p.WIDTH).err # None
    THEN [op |-> "Page", err |-> NumberOf(p.WIDTH).err, val |-> <<>>]
    ELSE IF NumberOf(p.HEIGHT).err # None
    THEN [op |-> "Page", err |-> NumberOf(p.HEIGHT).err, val |-> <<>>]
    ELSE [op |-> "Page", err |-> None,
          val |-> <<NumberOf(p.WIDTH).val, NumberOf(p.HEIGHT).val,
                    NumberOf(p.PC).val>>]

\* As if a text block of several areas took the first of them
FieldsOfFirstArea(area) ==
    IF area = <<>>
    THEN [op |-> "TextBlock", err |-> None,
          val |-> <<NoneStr, NoneStr, NoneStr>>]
    ELSE [op |-> "TextBlock", err |-> None,
          val |-> <<area[1].type, area[1].coords, area[1].page_part>>]

\* Lines 76-91: shape, coords and page_area from the areas with the block's id
FieldsOfArea(area) ==
    IF Len(area) > 1
    THEN [op |-> "TextBlock", err |-> "RuntimeError", val |-> <<>>]
    ELSE IF Len(area) = 1
    THEN [op |-> "TextBlock", err |-> None,
          val |-> <<area[1].type, area[1].coords, area[1].page_part>>]
    ELSE [op |-> "TextBlock", err |-> None,
          val |-> <<NoneStr, NoneStr, NoneStr>>]

\* TextBlock.__init__
TextBlockInit(page_areas, tb_id) ==
    FieldsOfArea(SelectSeq(page_areas, LAMBDA a : a.id = tb_id))

InitPage ==
    /\ page \in [state : {"source"}, asked : {0}, WIDTH : Attrs,
                 HEIGHT : Attrs, PC : Attrs,
                 areas : SeqsUpTo(PageAreas, MaxPageAreas),
                 textblocks : SeqsUpTo(AreaPool, MaxBlocks)]
    /\ call = <<>>
    /\ matches = <<>>
    /\ listing = <<>>
    /\ IdleDoc
    /\ IdleYears
    /\ IdleBlock
    /\ IdleArchive

PageUnchanged ==
    UNCHANGED <<mets, alto, doc, parsed, requested, dateText, placeText,
                years, block, bbox, archive, gen, got, call, matches,
                listing>>

\* Page(document, code, source)
NewPage ==
    /\ page.state = "source"
    /\ result' = PageInit(page)
    /\ page' = IF PageInit(page).err = None
               THEN [page EXCEPT !.state = "page"]
               ELSE [page EXCEPT !.state = "failed"]
    /\ PageUnchanged

\* TextBlock(tb, page) for the i-th TextBlock element of the page
NewTextBlock ==
    /\ page.state = "page"
    /\ \E i \in 1..Len(page.textblocks) :
           /\ result' = TextBlockInit(page.areas, page.textblocks[i])
           /\ page' = [page EXCEPT !.asked = i]
    /\ PageUnchanged

\* area.textblock for the i-th area of the page
AreaTextblock ==
    /\ page.state = "page"
    /\ \E i \in 1..Len(page.areas) :
           /\ result' =
                  [op |-> "textblock",
                   err |-> FirstWithId(page_textblocks(page.areas, "0001",
                                           page.textblocks),
                                       page.areas[i].id).err,
                   val |-> FirstWithId(page_textblocks(page.areas, "0001",
                                           page.textblocks),
                                       page.areas[i].id).val]
           /\ page' = [page EXCEPT !.asked = i]
    /\ PageUnchanged

NextPage == NewPage \/ NewTextBlock \/ AreaTextblock

SpecPage == InitPage /\ [][NextPage]_vars

---------------------------------------------------------------------------
(* Opening an archive (defoe/alto/archive.py,                              *)
(* defoe/nlsArticles/archive_combine.py, patterns of defoe/fmp/archive.py) *)

MaxNames == 3    \* entries of the archive

\* "_mets.xml" and ".xml"
MetsXml == <<"_", "m", "e", "t", "s", ".", "x", "m", "l">>
DotXml == <<".", "x", "m", "l">>

\* 1_2_mets.xml, 1_2_01.xml, 1_2_0_2.xml, 3_4_01.xml, a.xml
Names ==
    {<<"1", "_", "2">> \o MetsXml,
     <<"1", "_", "2", "_", "0", "1">> \o DotXml,
     <<"1", "_", "2", "_", "0", "_", "2">> \o DotXml,
     <<"3", "_", "4", "_", "0", "1">> \o DotXml,
     <<"a">> \o DotXml}

\* Where the longest run of chars that starts at position i of s ends
RECURSIVE Run(_, _, _)
Run(s, i, chars) ==
    IF i <= Len(s) /\ s[i] \in chars THEN Run(s, i + 1, chars) ELSE i

\* s has lit at position i
HasAt(s, i, lit) ==
    /\ i + Len(lit) - 1 <= Len(s)
    /\ SubSeq(s, i, i + Len(lit) - 1) = lit

\* Where ([0-9]*?_[0-9]*?) followed by "_" ends at the start of name; 0 when
\* name does not start that way
CodeEnd(name) ==
    IF /\ HasAt(name, Run(name, 1, Digits), <<"_">>)
       /\ HasAt(name, Run(name, Run(name, 1, Digits) + 1, Digits), <<"_">>)
    THEN Run(name, Run(name, 1, Digits) + 1, Digits)
    ELSE 0

\* re.compile("([0-9]*?_[0-9]*?)_mets\.xml").match(name): <<>> for None,
\* else <<group(1)>>
document_match(name) ==
    IF CodeEnd(name) > 0 /\ HasAt(name, CodeEnd(name), MetsXml)
    THEN <<SubSeq(name, 1, CodeEnd(name) - 1)>>
    ELSE <<>>

\* re.compile("([0-9]*?_[0-9]*?)_([0-9_]*)\.xml").match(name): <<>> for None,
\* else <<group(0), group(1), group(2)>>
page_match(name) ==
    IF /\ CodeEnd(name) > 0
       /\ HasAt(name, Run(name, CodeEnd(name) + 1, Digits \cup {"_"}), DotXml)
    THEN <<SubSeq(name, 1,
                  Run(name, CodeEnd(name) + 1, Digits \cup {"_"}) + 3),
           SubSeq(name, 1, CodeEnd(name) - 1),
           SubSeq(name, CodeEnd(name) + 1,
                  Run(name, CodeEnd(name) + 1, Digits \cup {"_"}) - 1)>>
    ELSE <<>>

\* {match.group(1): [] for match in document_matches}
RECURSIVE DocumentCodes(_)
DocumentCodes(names) ==
    IF names = <<>> THEN <<>>
    ELSE IF document_match(names[Len(names)]) = <<>>
    THEN DocumentCodes(SubSeq(names, 1, Len(names) - 1))
    ELSE DictPut(DocumentCodes(SubSeq(names, 1, Len(names) - 1)),
                 document_match(names[Len(names)])[1], <<>>)

\* One round of the loop over page_matches: alto/archive.py line 49,
\* archive_combine.py line 60
AddPage(codes, m, cls) ==
    IF m = <<>> THEN [err |-> None, val |-> codes]
    ELSE IF cls = "combine"
    THEN [err |-> None,
          val |-> DictPut(codes, codes[1][1], Append(codes[1][2], m[1]))]
    ELSE IF DictHas(codes, m[2])
    THEN [err |-> None,
          val |-> DictPut(codes, m[2], Append(DictGet(codes, m[2]), m[3]))]
    ELSE [err |-> "KeyError", val |-> <<>>]

RECURSIVE WithPages(_, _, _)
WithPages(r, names, cls) ==
    IF names = <<>> \/ r.err # None THEN r
    ELSE WithPages(AddPage(r.val, page_match(names[1]), cls), Tail(names), cls)

\* AltoArchive.__init__ of defoe.alto.archive (cls "alto") and of
\* archive_combine (cls "combine"), whose line 58 takes the first document
\* code
AltoArchive(cls, filenames) ==
    IF cls = "combine" /\ DocumentCodes(filenames) = <<>>
    THEN [err |-> "IndexError", val |-> <<>>]
    ELSE WithPages([err |-> None, val |-> DocumentCodes(filenames)],
                   filenames, cls)

InitOpen ==
    /\ listing \in [state : {"closed"}, cls : {"alto", "combine"},
                    filenames : {f \in SeqsUpTo(Names, MaxNames) :
                                    Injective(f)}]
    /\ call = <<>>
    /\ matches = <<>>
    /\ page = <<>>
    /\ IdleDoc
    /\ IdleYears
    /\ IdleBlock
    /\ IdleArchive

\* Archive(filename)
Open ==
    /\ listing.state = "closed"
    /\ result' = [op |-> "Archive",
                  err |-> AltoArchive(listing.cls, listing.filenames).err,
                  val |-> AltoArchive(listing.cls, listing.filenames).val]
    /\ listing' = [listing EXCEPT !.state =
                      IF result'.err = None THEN "open" ELSE "failed"]
    /\ UNCHANGED <<mets, alto, doc, parsed, requested, dateText, placeText,
                   years, block, bbox, archive, gen, got, call, matches,
                   page>>

NextOpen == Open

SpecOpen == InitOpen /\ [][NextOpen]_vars

---------------------------------------------------------------------------
(* Page codes of a document (defoe/alto/document.py,                       *)
(* defoe/fmp/document.py)                                                  *)

MaxCodes == 3    \* pages of the document

\* 2, 10, 1_2, 1_10
PageCodePool ==
    {<<"2">>, <<"1", "0">>, <<"1", "_", "2">>, <<"1", "_", "1", "0">>}

\* str.split("_")
RECURSIVE split(_)
split(string) ==
    IF Run(string, 1, Digits) > Len(string) THEN <<string>>
    ELSE <<SubSeq(string, 1, Run(string, 1, Digits) - 1)>> \o
         split(SubSeq(string, Run(string, 1, Digits) + 1, Len(string)))

\* As if only the first sub-code were read
SorterOfFirst(page_code) == <<int(split(page_code)[1])>>

\* Document.sorter, Document._sorter: list(map(int, page_code.split("_")))
sorter(page_code) ==
    [i \in 1..Len(split(page_code)) |-> int(split(page_code)[i])]

\* Python's a < b on two lists of int
RECURSIVE ListLess(_, _)
ListLess(a, b) ==
    IF b = <<>> THEN FALSE
    ELSE IF a = <<>> THEN TRUE
    ELSE IF a[1] = b[1] THEN ListLess(Tail(a), Tail(b))
    ELSE a[1] < b[1]

\* sorted(codes, key=Document.sorter): equal keys keep their order
RECURSIVE InsertCode(_, _)
InsertCode(x, s) ==
    IF s = <<>> THEN <<x>>
    ELSE IF ListLess(sorter(x), sorter(s[1])) THEN <<x>> \o s
    ELSE <<s[1]>> \o InsertCode(x, Tail(s))

RECURSIVE SortedCodes(_)
SortedCodes(codes) ==
    IF codes = <<>> THEN <<>>
    ELSE InsertCode(codes[Len(codes)],
                    SortedCodes(SubSeq(codes, 1, Len(codes) - 1)))

\* The physical structural map with one page division per ORDER value
MetsOfOrders(orders) ==
    [phys |-> [i \in 1..Len(orders) |-> [order |-> orders[i], areas |-> <<>>]],
     logical |-> {}, links |-> <<>>]

\* listing: the page codes of the document as the archive lists them, and
\* the ORDER values of the page divisions as the METS file has them
InitCodes ==
    /\ listing \in {c \in SeqsUpTo(PageCodePool, MaxCodes) : Injective(c)}
    /\ call = <<>>
    /\ matches = <<>>
    /\ page = <<>>
    /\ IdleDoc
    /\ IdleYears
    /\ IdleBlock
    /\ IdleArchive

CodesUnchanged ==
    UNCHANGED <<mets, alto, doc, parsed, requested, dateText, placeText,
                years, block, bbox, archive, gen, got, call, matches, page,
                listing>>

\* Document.sorter(page_code)
Sorter ==
    /\ \E i \in 1..Len(listing) :
           result' = [op |-> "sorter", err |-> None,
                      val |-> <<listing[i], sorter(listing[i])>>]
    /\ CodesUnchanged

\* defoe.alto Document.__init__, lines 47-49: self.page_codes
AltoPageCodes ==
    /\ result' = [op |-> "alto.page_codes", err |-> None,
                  val |-> SortedCodes(listing)]
    /\ CodesUnchanged

\* defoe.fmp Document.page_codes
FmpPageCodes ==
    /\ result' = [op |-> "fmp.page_codes", err |-> None,
                  val |-> page_codes(MetsOfOrders(listing))]
    /\ CodesUnchanged

NextCodes == Sorter \/ AltoPageCodes \/ FmpPageCodes

SpecCodes == InitCodes /\ [][NextCodes]_vars

---------------------------------------------------------------------------
(* Document: the lazily computed maps, and the areas of a page            *)
(* (defoe/fmp/document.py, defoe/fmp/area.py, defoe/fmp/page.py)          *)

MaxPartPages == 2   \* pages in the physical structural map
MaxReads == 3       \* reads of the document after its construction

TEXT == <<"T", "E", "X", "T">>
RECT == <<"R", "E", "C", "T">>

\* COORDS attributes: 1,2,3,4 / 01,2,3,4 / 10,2,13,4
CoordTexts ==
    {<<"1", ",", "2", ",", "3", ",", "4">>,
     <<"0", "1", ",", "2", ",", "3", ",", "4">>,
     <<"1", "0", ",", "2", ",", "1", "3", ",", "4">>}

\* A page-area division (ID, TYPE, third attribute) and the mets:area of
\* its file pointer (FILEID, SHAPE, COORDS)
AreaElement(id, coords) ==
    [area |-> <<id, TEXT, <<"c">>>>,
     fptr |-> <<<<"i">>, RECT, coords>>]

\* One link group that links every area to article art1
LinksOf(ids) ==
    IF ids = <<>> THEN <<>>
    ELSE <<[i \in 1..(1 + Len(ids)) |-> Locator((<<art1>> \o ids)[i], 1, i)]>>

MetsOfAreas(aa, cc) ==
    [phys |-> [p \in 1..Len(aa) |->
                 [order |-> <<ToString(p)>>,
                  areas |-> aa[p],
                  values |-> [i \in 1..Len(aa[p]) |->
                                AreaElement(aa[p][i], cc[aa[p][i]])]]],
     logical |-> {art1},
     links |-> LinksOf(Concat(aa))]

\* METS files whose areas have distinct ids, one mets:area per file
\* pointer, and are all linked to an article
PartMaps ==
    {MetsOfAreas(aa, cc) :
        aa \in {x \in SeqsUpTo(SeqsUpTo(AreaPool, MaxAreas), MaxPartPages) :
                   Injective(Concat(x))},
        cc \in [AreaPool -> CoordTexts]}

\* str.split(sep)
RECURSIVE SplitOn(_, _, _)
SplitOn(string, sep, piece) ==
    IF string = <<>> THEN <<piece>>
    ELSE IF string[1] = sep
         THEN <<piece>> \o SplitOn(Tail(string), sep, <<>>)
         ELSE SplitOn(Tail(string), sep, Append(piece, string[1]))

\* [int(x) for x in _coords.split(",")]
IntsOf(_coords) ==
    [i \in 1..Len(SplitOn(_coords, ",", <<>>)) |->
        int(SplitOn(_coords, ",", <<>>)[i])]

\* str(n) for n >= 0
RECURSIVE str(_)
str(n) ==
    IF n < 10 THEN <<CHOOSE c \in Digits : DigitVal(c) = n>>
    ELSE str(n \div 10) \o str(n % 10)

\* sep.join(parts)
RECURSIVE join(_, _)
join(sep, parts) ==
    IF parts = <<>> THEN <<>>
    ELSE IF Len(parts) = 1 THEN parts[1]
    ELSE parts[1] \o sep \o join(sep, Tail(parts))

\* As if the numbers were joined without a separator
CoordsRun(coords) == join(<<>>, [i \in 1..Len(coords) |-> str(coords[i])])

\* ",".join(map(str, area.coords))
CoordsText(coords) == join(<<",">>, [i \in 1..Len(coords) |-> str(coords[i])])

\* Area.__init__ for one mets:area of a division; _page is the Page
\* instance that get_areas_by_page_code assigns
AreaValues(lookup, parts, page_code, e, instance) ==
    [id         |-> e.area[1],
     page_code  |-> page_code,
     type       |-> e.fptr[2],
     category   |-> e.area[3],
     img        |-> e.fptr[1],
     coords     |-> IntsOf(e.fptr[3]),
     article_id |-> GetOrNone(lookup, e.area[1]),
     page_part  |-> GetOrNone(parts, e.area[1]),
     _page      |-> instance]

\* Document.scan_areas(page_code), each Area with its _page assigned
AreasOnPage(lookup, parts, page_code, div, instance) ==
    [i \in 1..Len(div.values) |->
        AreaValues(lookup, parts, page_code, div.values[i], instance)]

\* A lazily computed attribute: not assigned (None), or assigned
Unset == [stored |-> FALSE, val |-> <<>>]
Stored(v) == [stored |-> TRUE, val |-> v]

\* Python's `not self._x`: true of None and of an empty dict or list
Not(field) == ~field.stored \/ field.val = <<>>

\* The document before __init__.  computed counts the computations of each
\* map, parsed lists the codes of the Page instances constructed so far,
\* ret is the value of the call in progress
FreshDoc ==
    [state |-> "none",
     _pages_metadata |-> Unset, _article_id_lookup |-> Unset,
     _areas |-> Unset, _articles_ids |-> Unset, _parts_coord |-> Unset,
     computed |-> [pages_metadata |-> 0, article_id_lookup |-> 0,
                   areas |-> 0, articles_ids |-> 0, parts_coord |-> 0],
     parsed |-> <<>>, reads |-> 0, ret |-> <<>>]

\* Document.pages_metadata
WithPagesMetadata(m, d) ==
    IF Not(d._pages_metadata)
    THEN [d EXCEPT !._pages_metadata = Stored(pages_metadata(m)),
                   !.computed.pages_metadata = @ + 1]
    ELSE d

\* Document.article_id_lookup
WithArticleIdLookup(m, d) ==
    IF Not(d._article_id_lookup)
    THEN [d EXCEPT !._article_id_lookup = Stored(article_id_lookup(m).val),
                   !.computed.article_id_lookup = @ + 1]
    ELSE d

\* Area.__init__ reads document.article_id_lookup when it is not handed one
LookupForAreas(m, d, codes) ==
    IF \E i \in 1..Len(codes) :
          DictGet(d._pages_metadata.val, codes[i]).values # <<>>
    THEN WithArticleIdLookup(m, d)
    ELSE d

\* for page_code in page_codes: page = self.get_page(page_code), then every
\* area of scan_areas(page_code) gets area._page = page
AreasOfCodes(m, d, codes) ==
    [d EXCEPT
        !.parsed = @ \o codes,
        !.ret = [i \in 1..Len(codes) |->
                   <<codes[i],
                     AreasOnPage(d._article_id_lookup.val, page_parts(m),
                                 codes[i],
                                 DictGet(d._pages_metadata.val, codes[i]),
                                 Len(d.parsed) + i)>>]]

SelectedCodes(d, selected_page_code) ==
    IF selected_page_code = NoneStr THEN DictKeys(d._pages_metadata.val)
    ELSE <<selected_page_code>>

AreasOfSelected(m, d, codes) ==
    AreasOfCodes(m, LookupForAreas(m, d, codes), codes)

AreasFromMetadata(m, d, selected_page_code) ==
    AreasOfSelected(m, d, SelectedCodes(d, selected_page_code))

\* Document.get_areas_by_page_code(selected_page_code)
AreasByPageCode(m, d, selected_page_code) ==
    AreasFromMetadata(m, WithPagesMetadata(m, d), selected_page_code)

StoreAreas(d) ==
    [d EXCEPT !._areas = Stored(d.ret), !.computed.areas = @ + 1]

\* Document.areas
WithAreas(m, d) ==
    IF Not(d._areas) THEN StoreAreas(AreasByPageCode(m, d, NoneStr)) ELSE d

StoreArticlesIds(d) ==
    [d EXCEPT !._articles_ids = Stored(articles_ids(d._areas.val).val),
              !.computed.articles_ids = @ + 1]

\* Document.articles_ids
WithArticlesIds(m, d) ==
    IF Not(d._articles_ids) THEN StoreArticlesIds(WithAreas(m, d)) ELSE d

\* {area.id: [area.type, ",".join(map(str, area.coords))] for ...}
RECURSIVE PartsCoordFrom(_, _)
PartsCoordFrom(all, acc) ==
    IF all = <<>> THEN acc
    ELSE PartsCoordFrom(Tail(all),
                        DictPut(acc, all[1].id,
                                <<all[1].type, CoordsText(all[1].coords)>>))

StorePartsCoord(d) ==
    [d EXCEPT
        !._parts_coord = Stored(PartsCoordFrom(AllAreas(d._areas.val), <<>>)),
        !.computed.parts_coord = @ + 1]

\* Document.parts_coord
WithPartsCoord(m, d) ==
    IF Not(d._parts_coord) THEN StorePartsCoord(WithAreas(m, d)) ELSE d

\* Document.__init__, lines 66-81: the attributes are set to None
ResetAttributes(d) ==
    [d EXCEPT !._pages_metadata = Unset, !._article_id_lookup = Unset,
              !._areas = Unset, !._articles_ids = Unset,
              !._parts_coord = Unset]

\* Document.__init__, lines 87-114: num_articles and the aliases read
\* articles_ids, parts_coord, articles_ids, parts_coord, articles_ids,
\* parts_coord and article_id_lookup
AliasesRead(m, d) ==
    WithArticleIdLookup(m,
      WithPartsCoord(m,
        WithArticlesIds(m,
          WithPartsCoord(m,
            WithArticlesIds(m,
              WithPartsCoord(m,
                WithArticlesIds(m, d)))))))

\* Document.__init__: num_pages reads page_codes (line 62) before the
\* attributes are set to None
ConstructedDoc(m) ==
    [AliasesRead(m, ResetAttributes(WithPagesMetadata(m, FreshDoc)))
        EXCEPT !.state = "ok", !.ret = <<>>]

InitAreas ==
    /\ mets \in PartMaps
    /\ alto = <<>>
    /\ doc = FreshDoc
    /\ parsed = <<>>
    /\ requested = FALSE
    /\ result = NoResult
    /\ IdleYears
    /\ IdleBlock
    /\ IdleArchive
    /\ IdleRest

AreasUnchanged ==
    UNCHANGED <<mets, alto, parsed, requested, dateText, placeText, years,
                block, bbox, archive, gen, got, call, matches, listing>>

\* Document(code, archive)
NewAreasDocument ==
    /\ doc.state = "none"
    /\ doc' = ConstructedDoc(mets)
    /\ UNCHANGED <<result, page>>
    /\ AreasUnchanged

\* One read of the constructed document: d is the document after the read
ReadAs(op, d, val) ==
    /\ doc' = [d EXCEPT !.reads = @ + 1, !.ret = <<>>]
    /\ result' = [op |-> op, err |-> None, val |-> val]

CanRead == doc.state = "ok" /\ doc.reads < MaxReads

ReadStored(op, d, field) == ReadAs(op, d, field.val) /\ UNCHANGED page

\* document.pages_metadata
AccessPagesMetadata ==
    /\ CanRead
    /\ ReadStored("pages_metadata", WithPagesMetadata(mets, doc),
                  WithPagesMetadata(mets, doc)._pages_metadata)
    /\ AreasUnchanged

\* document.article_id_lookup
AccessArticleIdLookup ==
    /\ CanRead
    /\ ReadStored("article_id_lookup", WithArticleIdLookup(mets, doc),
                  WithArticleIdLookup(mets, doc)._article_id_lookup)
    /\ AreasUnchanged

\* document.areas
AccessAreas ==
    /\ CanRead
    /\ ReadStored("areas", WithAreas(mets, doc), WithAreas(mets, doc)._areas)
    /\ AreasUnchanged

\* document.articles_ids
AccessArticlesIds ==
    /\ CanRead
    /\ ReadStored("articles_ids", WithArticlesIds(mets, doc),
                  WithArticlesIds(mets, doc)._articles_ids)
    /\ AreasUnchanged

\* document.parts_coord
AccessPartsCoord ==
    /\ CanRead
    /\ ReadStored("parts_coord", WithPartsCoord(mets, doc),
                  WithPartsCoord(mets, doc)._parts_coord)
    /\ AreasUnchanged

\* page = document.get_page(code): a new Page instance, held by the caller
DocumentPage ==
    /\ CanRead
    /\ \E code \in PageCodeSet(mets) :
          /\ ReadAs("get_page", [doc EXCEPT !.parsed = Append(@, code)], code)
          /\ page' = [instance |-> Len(doc.parsed) + 1, code |-> code,
                      _areas |-> Unset]
    /\ AreasUnchanged

PageAreasComputed(d) ==
    /\ ReadAs("page.areas", d, DictGet(d.ret, page.code))
    /\ page' = [page EXCEPT !._areas = Stored(DictGet(d.ret, page.code))]

\* page.areas on the Page instance the caller holds
ReadPageAreas ==
    /\ CanRead
    /\ page # <<>>
    /\ IF Not(page._areas)
       THEN PageAreasComputed(AreasByPageCode(mets, doc, page.code))
       ELSE ReadStored("page.areas", doc, page._areas)
    /\ AreasUnchanged

NextAreas ==
    \/ NewAreasDocument
    \/ AccessPagesMetadata
    \/ AccessArticleIdLookup
    \/ AccessAreas
    \/ AccessArticlesIds
    \/ AccessPartsCoord
    \/ DocumentPage
    \/ ReadPageAreas

SpecAreas == InitAreas /\ [][NextAreas]_vars

---------------------------------------------------------------------------
(* Document._clean_id on the xlink:href of a locator                      *)
(* (defoe/fmp/document.py, defoe/fmp/patterns.py)                         *)

MaxIdLen == 4    \* characters of the id that an xlink:href names

\* Ids over #, _, a and 1; the xlink:href of the locator is "#" + id
LocatorIds == SeqsUpTo({"#", "_", "a", "1"}, MaxIdLen)

InitClean ==
    /\ mets \in {Locator(id, 1, 1) : id \in LocatorIds}
    /\ alto = <<>>
    /\ doc = NoDoc
    /\ parsed = <<>>
    /\ requested = FALSE
    /\ result = NoResult
    /\ IdleYears
    /\ IdleBlock
    /\ IdleArchive
    /\ IdleRest

CleanUnchanged ==
    UNCHANGED <<mets, alto, doc, parsed, requested, dateText, placeText,
                years, block, bbox, archive, gen, got, call, matches, page,
                listing>>

\* self._clean_id(link.values()[0])
CleanId ==
    /\ result' = [op |-> "_clean_id", err |-> None,
                  val |-> <<_clean_id(mets.href)>>]
    /\ CleanUnchanged

\* self._clean_id(...) of an id that _clean_id returned
CleanIdAgain ==
    /\ result.op # None
    /\ result' = [op |-> "_clean_id again", err |-> None,
                  val |-> <<_clean_id(result.val[1])>>]
    /\ CleanUnchanged

NextClean == CleanId \/ CleanIdAgain

SpecClean == InitClean /\ [][NextClean]_vars

---------------------------------------------------------------------------
(* Document.article_id_lookup read by the constructor and then by readers *)
(* whose statements interleave (defoe/fmp/document.py)                    *)

MaxReaders == 2   \* readers of the constructed document

\* The thread that constructs the document, then the readers
Constructor == 1
Readers == 2..(1 + MaxReaders)

\* METS files: any structLink, and one page with the linked areas
RaceMets ==
    {[phys |-> IF DictKeys(article_id_lookup([links |-> l]).val) = <<>>
               THEN <<>>
               ELSE <<[order |-> <<"1">>,
                       areas |-> DictKeys(article_id_lookup([links |-> l]).val)]>>,
      logical |-> {art1},
      links |-> l] : l \in StructLinks}

\* for art_id, lst in _parts.items(): for pa_id in lst: the pairs
\* <<pa_id, art_id>> in the order of the two loops
Assignments(_parts) ==
    Concat([k \in 1..Len(_parts) |->
               [j \in 1..Len(_parts[k][2]) |->
                   <<_parts[k][2][j], _parts[k][1]>>]])

\* As if the document were handed to its readers before __init__ returns
PublishedAtOnce(d) == TRUE

\* The document exists for a reader once Document.__init__ has returned
Published(d) == d.state = "ok"

\* heap holds the dict objects made so far; _article_id_lookup is the
\* object the attribute refers to, 0 for None.  call[t] is the call of
\* article_id_lookup by thread t: its next statement, the pairs its loops
\* have still to assign, and the object it returned
InitRace ==
    /\ mets \in RaceMets
    /\ doc = [state |-> "none", heap |-> <<>>, _article_id_lookup |-> 0]
    /\ call = [t \in 1..(1 + MaxReaders) |->
                 [pc |-> "if", todo |-> <<>>, ret |-> 0]]
    /\ alto = <<>>
    /\ parsed = <<>>
    /\ requested = FALSE
    /\ result = NoResult
    /\ matches = <<>>
    /\ page = <<>>
    /\ listing = <<>>
    /\ IdleYears
    /\ IdleBlock
    /\ IdleArchive

RaceUnchanged ==
    UNCHANGED <<mets, alto, parsed, requested, result, dateText, placeText,
                years, block, bbox, archive, gen, got, matches, page,
                listing>>

MayRun(t) == t = Constructor \/ Published(doc)

\* not self._article_id_lookup
LookupIsFalsy(d) ==
    d._article_id_lookup = 0 \/ d.heap[d._article_id_lookup] = <<>>

\* if not self._article_id_lookup: and, when true, the loop that fills
\* the local _parts
TestLookup(t) ==
    /\ MayRun(t)
    /\ call[t].pc = "if"
    /\ call' = [call EXCEPT
                  ![t].pc = IF LookupIsFalsy(doc) THEN "assign" ELSE "return",
                  ![t].todo = IF LookupIsFalsy(doc)
                              THEN Assignments(PartsFrom(mets.links, <<>>).val)
                              ELSE <<>>]
    /\ UNCHANGED doc
    /\ RaceUnchanged

\* self._article_id_lookup = {}
AssignEmpty(t) ==
    /\ call[t].pc = "assign"
    /\ doc' = [doc EXCEPT !.heap = Append(@, <<>>),
                          !._article_id_lookup = Len(doc.heap) + 1]
    /\ call' = [call EXCEPT
                  ![t].pc = IF call[t].todo = <<>> THEN "return" ELSE "fill"]
    /\ RaceUnchanged

\* self._article_id_lookup[pa_id] = art_id
FillOne(t) ==
    /\ call[t].pc = "fill"
    /\ doc' = [doc EXCEPT
                 !.heap[doc._article_id_lookup] =
                     DictPut(@, call[t].todo[1][1], call[t].todo[1][2])]
    /\ call' = [call EXCEPT
                  ![t].todo = Tail(@),
                  ![t].pc = IF Len(call[t].todo) = 1 THEN "return" ELSE "fill"]
    /\ RaceUnchanged

\* return self._article_id_lookup; the constructor then returns the document
ReturnLookup(t) ==
    /\ call[t].pc = "return"
    /\ call' = [call EXCEPT ![t].pc = "done",
                            ![t].ret = doc._article_id_lookup]
    /\ doc' = [doc EXCEPT !.state = IF t = Constructor THEN "ok" ELSE @]
    /\ RaceUnchanged

NextRace ==
    \E t \in 1..(1 + MaxReaders) :
        \/ TestLookup(t)
        \/ AssignEmpty(t)
        \/ FillOne(t)
        \/ ReturnLookup(t)

SpecRace == InitRace /\ [][NextRace]_vars

---------------------------------------------------------------------------
(* The errors file and the results file of a run                          *)
(* (defoe/run_query.py, defoe/run_queries.py)                             *)

ErrorsStem == <<"e", "r", "r", "o", "r", "s">>
ResultsStem == <<"r", "e", "s", "u", "l", "t", "s">>

YmlEnding == <<".", "y", "m", "l">>
YamlEnding == <<".", "y", "a", "m", "l">>
JsonEnding == <<".", "j", "s", "o", "n">>

\* .yml, .yaml, .json, .txt, .jso, yml.bak and no ending
Endings ==
    {YmlEnding, YamlEnding, JsonEnding, <<".", "t", "x", "t">>,
     <<".", "j", "s", "o">>, YmlEnding \o <<".", "b", "a", "k">>, <<>>}

FileNames == {n \o e : n \in {ErrorsStem, ResultsStem}, e \in Endings}

\* str.endswith(suffix)
endswith(s, suffix) ==
    /\ Len(s) >= Len(suffix)
    /\ \A i \in 1..Len(suffix) : s[Len(s) - Len(suffix) + i] = suffix[i]

\* yaml_errors_file, yaml_results_file
IsYamlFile(name) == endswith(name, YmlEnding) \/ endswith(name, YamlEnding)

\* json_errors_file, json_results_file
IsJsonFile(name) == endswith(name, JsonEnding)

\* if not json_errors_file or yaml_errors_file: raise SyntaxError(...)
Refused(name) == ~IsJsonFile(name) \/ IsYamlFile(name)

\* with open(args.errors_file, "w") as f: what is dumped into it
ErrorsDump(name) ==
    IF IsYamlFile(name) THEN "yaml.safe_dump"
    ELSE IF IsJsonFile(name) THEN "json.dumps"
    ELSE "nothing"

\* with open(args.results_file, "w") as f: what is dumped into it
ResultsDump(name) ==
    IF IsYamlFile(name) THEN "json.dumps"
    ELSE IF IsJsonFile(name) THEN "yaml.safe_dump"
    ELSE "nothing"

\* call holds the arguments of the run
InitRun ==
    /\ call \in [errors_file : FileNames, results_file : FileNames]
    /\ alto = <<>>
    /\ mets = <<>>
    /\ doc = NoDoc
    /\ parsed = <<>>
    /\ requested = FALSE
    /\ result = NoResult
    /\ matches = <<>>
    /\ page = <<>>
    /\ listing = <<>>
    /\ IdleYears
    /\ IdleBlock
    /\ IdleArchive

RunUnchanged ==
    UNCHANGED <<mets, alto, doc, parsed, requested, dateText, placeText,
                years, block, bbox, archive, gen, got, call, matches, page,
                listing>>

\* The run fails with SyntaxError, or writes its files: val is what was
\* dumped into the errors file and into the results file
RunEnds(op, refused, errors_dump, results_dump) ==
    result' = IF refused
              THEN [op |-> op, err |-> "SyntaxError", val |-> <<>>]
              ELSE [op |-> op, err |-> None,
                    val |-> <<errors_dump, results_dump>>]

\* run_query.main with some file in error and a query with results
RunQuery ==
    /\ RunEnds("run_query",
               Refused(call.errors_file) \/ Refused(call.results_file),
               ErrorsDump(call.errors_file), ResultsDump(call.results_file))
    /\ RunUnchanged

\* run_queries.main with some file in error; each query writes its own
\* results file with yaml.safe_dump
RunQueries ==
    /\ RunEnds("run_queries", Refused(call.errors_file),
               ErrorsDump(call.errors_file), "yaml.safe_dump")
    /\ RunUnchanged

NextRun == RunQuery \/ RunQueries

SpecRun == InitRun /\ [][NextRun]_vars

---------------------------------------------------------------------------
(* TextBlock: word and character confidences (defoe/fmp/textblock.py)     *)

MaxStrings == 2     \* String elements of the text block
MaxConfReads == 2   \* reads of a confidences property after construction

\* Values of a WC or CC attribute: 0, 0.5, x and the empty string
ConfTexts == {<<"0">>, <<"0", ".", "5">>, <<"x">>, <<>>}

\* The String elements; NoneStr stands for an attribute that is absent
StringElements == [WC : ConfTexts \cup {NoneStr}, CC : ConfTexts \cup {NoneStr}]

\* An entry of a confidences list: a str, or a float counted in hundredths
StrEntry(s) == [kind |-> "str", text |-> s, num |-> 0]
FloatEntry(n) == [kind |-> "float", text |-> <<>>, num |-> n]

\* tree.xpath("TextLine/String/@WC"), tree.xpath("TextLine/String/@CC")
RECURSIVE AttrValues(_)
AttrValues(attrs) ==
    IF attrs = <<>> THEN <<>>
    ELSE IF attrs[1] = NoneStr THEN AttrValues(Tail(attrs))
    ELSE <<StrEntry(attrs[1])>> \o AttrValues(Tail(attrs))

WCsOf(strings) == AttrValues([i \in 1..Len(strings) |-> strings[i].WC])
CCsOf(strings) == AttrValues([i \in 1..Len(strings) |-> strings[i].CC])

\* The texts float() converts: digits, with at most one point among them
IsNumeric(s) ==
    /\ \A i \in 1..Len(s) : s[i] \in Digits \cup {"."}
    /\ \E i \in 1..Len(s) : s[i] \in Digits
    /\ Len(SplitOn(s, ".", <<>>)) <= 2

\* The first two decimals as a number of hundredths
Decimals(s) ==
    IF s = <<>> THEN 0
    ELSE IF Len(s) = 1 THEN 10 * int(s)
    ELSE int(SubSeq(s, 1, 2))

FloatOfParts(parts) ==
    100 * int(parts[1]) + (IF Len(parts) = 2 THEN Decimals(parts[2]) ELSE 0)

\* float(x) of a str that is numeric, or of a float
float(x) ==
    IF x.kind = "float" THEN x
    ELSE FloatEntry(FloatOfParts(SplitOn(x.text, ".", <<>>)))

\* `if x` in the comprehension: false of "" and of 0.0
Truthy(x) == IF x.kind = "str" THEN x.text # <<>> ELSE x.num # 0

SelectKept(xs) == SelectSeq(xs, Truthy)

\* try: [float(x) for x in xs if x]  except ValueError: pass
Floats(xs) ==
    IF \A i \in 1..Len(xs) :
          Truthy(xs[i]) => (xs[i].kind = "float" \/ IsNumeric(xs[i].text))
    THEN [i \in 1..Len(SelectKept(xs)) |-> float(SelectKept(xs)[i])]
    ELSE xs

\* if not self._word_confidences: self._word_confidences = list(xpath)
Queried(field, entries) == IF Not(field) THEN entries ELSE field.val

\* TextBlock.word_confidences, TextBlock.character_confidences: the
\* attribute after the read; the read returns its value
confidences(field, entries) == Stored(Floats(Queried(field, entries)))

\* TextBlock.__init__, lines 110-121: textblock_wc, textblock_cc, cc, wc
AliasesOf(strings, wc1, cc1) ==
    [strings |-> strings, state |-> "ok", reads |-> 0,
     textblock_wc |-> wc1.val,
     textblock_cc |-> cc1.val,
     cc |-> confidences(cc1, CCsOf(strings)).val,
     wc |-> confidences(wc1, WCsOf(strings)).val,
     _character_confidences |-> confidences(cc1, CCsOf(strings)),
     _word_confidences |-> confidences(wc1, WCsOf(strings))]

NewBlock(strings) ==
    [strings |-> strings, state |-> "none", reads |-> 0,
     textblock_wc |-> <<>>, textblock_cc |-> <<>>, cc |-> <<>>, wc |-> <<>>,
     _character_confidences |-> Unset, _word_confidences |-> Unset]

InitConf ==
    /\ block \in {NewBlock(s) : s \in SeqsUpTo(StringElements, MaxStrings)}
    /\ bbox = <<>>
    /\ IdleDoc
    /\ IdleYears
    /\ IdleArchive
    /\ IdleRest

ConfUnchanged ==
    UNCHANGED <<mets, alto, doc, parsed, requested, dateText, placeText,
                years, bbox, archive, gen, got, call, matches, page, listing>>

\* TextBlock(textblock_tree, page)
NewConfBlock ==
    /\ block.state = "none"
    /\ block' = AliasesOf(block.strings,
                          confidences(Unset, WCsOf(block.strings)),
                          confidences(Unset, CCsOf(block.strings)))
    /\ UNCHANGED result
    /\ ConfUnchanged

CanReadBlock == block.state = "ok" /\ block.reads < MaxConfReads

\* textblock.word_confidences
ReadWordConfidences ==
    /\ CanReadBlock
    /\ block' = [block EXCEPT
                   !.reads = @ + 1,
                   !._word_confidences =
                       confidences(@, WCsOf(block.strings))]
    /\ result' = [op |-> "word_confidences", err |-> None,
                  val |-> block'._word_confidences.val]
    /\ ConfUnchanged

\* textblock.character_confidences
ReadCharacterConfidences ==
    /\ CanReadBlock
    /\ block' = [block EXCEPT
                   !.reads = @ + 1,
                   !._character_confidences =
                       confidences(@, CCsOf(block.strings))]
    /\ result' = [op |-> "character_confidences", err |-> None,
                  val |-> block'._character_confidences.val]
    /\ ConfUnchanged

NextConf == NewConfBlock \/ ReadWordConfidences \/ ReadCharacterConfidences

SpecConf == InitConf /\ [][NextConf]_vars

---------------------------------------------------------------------------
(* Properties *)

\* Two link groups that name the same area under two articles
SharedLinks ==
    <<<<Locator(art1, 1, 1), Locator(pa1, 1, 2), Locator(pa2, 1, 3)>>,
      <<Locator(art2, 2, 1), Locator(pa1, 2, 2)>>>>

\* One link group, one article, one area
OneLink == <<<<Locator(art1, 1, 1), Locator(pa1, 1, 2)>>>>

OnePage(areas) == <<[order |-> <<"1">>, areas |-> areas]>>

Code1 == <<"0", "0", "0", "1">>

InLocators(locs, a, p) == DictHas(locs, a) /\ p \in Range(DictGet(locs, a))

LookupIs(lookup, p, a) == DictHas(lookup, p) /\ DictGet(lookup, p) = a

\* C1: for every article id a and area id p of a constructed document, p is in
\* locators[a] if and only if article_id_lookup[p] = a.
C1_ExactInverses ==
    doc.state = "ok" =>
        \A a \in ArticlePool, p \in AreaPool :
            InLocators(locators(mets).val, a, p)
                <=> LookupIs(doc._article_id_lookup, p, a)

\* C1: with pa1 linked under art1 and under art2, locators lists pa1 under
\* art1 while article_id_lookup gives art2 for pa1.
C1_SharedArea ==
    /\ mets.links = SharedLinks
    /\ doc.state = "ok"
    /\ result.op = "locators"
    /\ InLocators(result.val, art1, pa1)
    /\ LookupIs(doc._article_id_lookup, pa1, art2)

\* The area ids linked to article a, in the order of a's link groups
LinkedTo(m, a) ==
    Concat([g \in 1..Len(m.links) |->
               IF GroupIdsOf(m.links[g])[1] = a
               THEN Tail(GroupIdsOf(m.links[g])) ELSE <<>>])

HasBlock(pages, p) == \E c \in DOMAIN pages : p \in Range(pages[c])

PageOfBlock(pages, p) == CHOOSE c \in DOMAIN pages : p \in Range(pages[c])

\* The text block with the id of area p, annotated with p's page-part label
BlockFor(m, pages, p) ==
    [err |-> None, id |-> p, page_code |-> PageOfBlock(pages, p),
     page_area |-> GetOrNone(page_parts(m), p)]

ExpectedBlocks(m, pages, a) ==
    LET linked == SelectSeq(Dedup(LinkedTo(m, a)),
                            LAMBDA p : HasBlock(pages, p))
    IN  [i \in 1..Len(linked) |-> BlockFor(m, pages, linked[i])]

\* Every article of structLink has one link group
OneGroupEach(m) ==
    \A g, h \in 1..Len(m.links) :
        GroupIdsOf(m.links[g])[1] = GroupIdsOf(m.links[h])[1] => g = h

\* C2: for every article id a in articles_ids, the text blocks Document.articles
\* gives for a are the text blocks of the areas linked to a that have one, in
\* the order of a's link group, each with its area's page-part label (in a
\* document where every article has one link group).
C2_ArticlesInLinkOrder ==
    (result.op = "articles" /\ OneGroupEach(mets)) =>
        \A a \in Range(doc._articles_ids) :
            /\ DictHas(result.val, a)
            /\ DictGet(result.val, a) = ExpectedBlocks(mets, alto, a)

\* C2: with pa1 linked under art1 and art2, the articles of art1 lack the text
\* block of pa1 although art1's link group names it first.
C2_SharedArea ==
    /\ mets.links = SharedLinks
    /\ mets.phys = OnePage(<<pa1, pa2>>)
    /\ alto[Code1] = <<pa1, pa2>>
    /\ result.op = "articles"
    /\ result.err = None
    /\ Len(DictGet(result.val, art1)) = 1
    /\ DictGet(result.val, art1)[1].id = pa2

LinkedAreas(m) == UNION {Range(Tail(GroupIdsOf(m.links[g]))) : g \in 1..Len(m.links)}

HasUnlinkedArea(m) ==
    \E i \in 1..Len(m.phys) : \E j \in 1..Len(m.phys[i].areas) :
        m.phys[i].areas[j] \notin LinkedAreas(m)

\* C3: a document whose physical structural map has an area that no
\* structural link references is constructed without error, and that area
\* has article_id None and page_part None.
C3_UnlinkedAreaConstructs ==
    (doc.state # "none" /\ HasUnlinkedArea(mets)) =>
        /\ doc.state = "ok"
        /\ \A i \in 1..Len(AllAreas(doc._areas)) :
              AllAreas(doc._areas)[i].id \notin LinkedAreas(mets) =>
                  /\ AllAreas(doc._areas)[i].article_id = NoneStr
                  /\ AllAreas(doc._areas)[i].page_part = NoneStr

\* C3: the construction of a document with one page, one area and no
\* structural link ends with AttributeError.
C3_ConstructionFails ==
    /\ mets.links = <<>>
    /\ mets.phys = OnePage(<<pa1>>)
    /\ doc.state = "failed"
    /\ doc.error = "AttributeError"

\* C4: articles_ids is the set of the ids of the logical structural map's
\* ARTICLE divisions that begin with "art", whatever structLink and the
\* physical structural map hold.
C4_FromLogicalMap ==
    doc.state = "ok" =>
        Range(doc._articles_ids) =
            {x \in struct_map_logical(mets) : StartsWith(x, <<"a", "r", "t">>)}

\* C4: art1 is an article of the logical structural map and of structLink,
\* but with no area of the physical structural map linked to it, it is not in
\* articles_ids.
C4_ArticleWithoutArea ==
    /\ mets.logical = {art1}
    /\ mets.links = OneLink
    /\ mets.phys = <<>>
    /\ doc.state = "ok"
    /\ result.op = "articles_ids"
    /\ result.val = <<>>

\* C5: a constructed document has parsed no page stream before the caller
\* first asks for a page or a text block.
C5_LazyPages ==
    (doc.state = "ok" /\ ~requested) =>
        \A i \in 1..Len(parsed) : parsed[i][1] # "alto"

\* C5: the construction of a one-page document has parsed the page's stream
\* before any request.
C5_PageParsedAtConstruction ==
    /\ doc.state = "ok"
    /\ ~requested
    /\ mets.phys = OnePage(<<pa1>>)
    /\ parsed = <<(<<"mets">>), <<"alto", Code1>>>>

\* C6: when the iteration of an archive has ended, every document whose METS
\* stream is sound has been obtained by it, wherever the failing documents
\* are.
C6_FailureConfined ==
    gen.state = "finished" =>
        \A i \in 1..Len(archive) :
            archive[i] = "good" => i \in Range(got.iter)

\* C6: the iteration of an archive whose first document fails has ended
\* without the second document.
C6_IterationCutShort ==
    /\ archive = <<"bad", "good">>
    /\ gen.state = "finished"
    /\ got.iter = <<>>
    /\ got.raised = {1}

\* A text that is a CCYY-MM-DD date and nothing else
IsExactDate(text) == Len(text) = 10 /\ IsDateAt(text, 1)

YearStarts(text) == {i \in 1..Len(text) : IsLongAt(text, i)}

NextYearStart(text, i) ==
    Min({j \in YearStarts(text) : j > i} \cup {Len(text) + 1})

\* Every 4-digit year of the text and, for every 2-digit number between it
\* and the next 4-digit year, the year of the same century
GeneralYears(text) ==
    UNION {{int(SubSeq(text, i, i + 3))} \cup
           {int(SubSeq(text, i, i + 1) \o sy) :
                sy \in Range(short_findall(
                    SubSeq(text, i + 4, NextYearStart(text, i) - 1)))} :
           i \in YearStarts(text)}

Example1 == <<"1", "8", "6", "2", ",", " ", "[", "1", "8", "6", "1", "]">>
Example2 ==
    <<"1", "8", "4", "7", " ", "[", "1", "8", "4", "6", ",", " ", "4", "7", "]">>
Example3 == <<"1", "8", "7", "3", "-", "8", "0">>

\* A date followed by a space and a year
DateThenYear ==
    <<"1", "8", "7", "0", "-", "0", "9", "-", "0", "1", " ", "1", "8", "4", "6">>

\* C7: for a text that is not a CCYY-MM-DD date, _parse_year returns the
\* ascending, duplicate-free list of the text's 4-digit years and of the years
\* formed from the 2-digit numbers that follow them; the three documented
\* examples give their documented results; None gives [].
C7_GeneralRule ==
    years.op = "_parse_year" =>
        /\ dateText = NoneStr => years.val = <<>>
        /\ (dateText # NoneStr /\ ~IsExactDate(dateText)) =>
               years.val = SortedSet(GeneralYears(dateText))
        /\ dateText = Example1 => years.val = <<1861, 1862>>
        /\ dateText = Example2 => years.val = <<1846, 1847>>
        /\ dateText = Example3 => years.val = <<1873, 1880>>

\* C7: "1870-09-01 1846" is not a date, and _parse_year returns [1870] for it,
\* without 1846.
C7_DateThenYear ==
    /\ dateText = DateThenYear
    /\ years.op = "_parse_year"
    /\ years.val = <<1870>>

\* C8: _parse_year takes the single-year exception exactly for the texts that
\* are a CCYY(-|/)MM(-|/)DD date and nothing else.
C8_ExceptionOnlyForDates ==
    (years.op = "_parse_year" /\ dateText # NoneStr) =>
        (standard_match(dateText) <=> IsExactDate(dateText))

\* C8: a date followed by further characters takes the single-year exception.
C8_DatePrefix ==
    /\ years.op = "_parse_year"
    /\ dateText = DateThenYear
    /\ standard_match(dateText)
    /\ ~IsExactDate(dateText)
    /\ years.val # SortedSet(GeneralYears(dateText))

\* C9: Document.years is the years of the date and of the place, ascending,
\* each year once.
C9_YearsDeduped ==
    years.op = "_get_years" =>
        years.val = SortedSet(Range(_parse_year(dateText)) \cup
                              Range(_parse_year(placeText)))

\* C9: a date and a place that both hold 1870 give the year twice.
C9_YearTwice ==
    /\ dateText = <<"1", "8", "7", "0">>
    /\ placeText = <<"1", "8", "7", "0">>
    /\ years.op = "_get_years"
    /\ years.val = <<1870, 1870>>

\* C10: the bounding box (x0, y0, x1, y1) of a text block with tokens has
\* x0 <= x and x1 >= x + width for every token, the same for y and height,
\* x0 <= x1 and y0 <= y1; without tokens it is (0, 0, page width, page height).
C10_BBoxCoversTokens ==
    bbox # <<>> =>
        IF block.tokens = <<>>
        THEN bbox = <<0, 0, block.width, block.height>>
        ELSE /\ \A i \in 1..Len(block.tokens) :
                   /\ bbox[1] <= block.tokens[i][1]
                   /\ bbox[3] >= block.tokens[i][1] + block.tokens[i][3]
                   /\ bbox[2] <= block.tokens[i][2]
                   /\ bbox[4] >= block.tokens[i][2] + block.tokens[i][4]
             /\ bbox[1] <= bbox[3]
             /\ bbox[2] <= bbox[4]

\* C10: the bounding box of two tokens apart from each other, the second one
\* with a width and a height, has been computed.
C10_TwoTokens ==
    /\ block.tokens = <<(<<1, 0, 0, 0>>), <<0, 1, 1, 1>>>>
    /\ bbox = <<0, 0, 1, 2>>

\* The candidate strings of the call, each once
WordsOf(c) == IF c.token.kind = "str" THEN {c.token.words[1]} ELSE Range(c.token.words)

Count(val, r) == Cardinality({k \in DOMAIN val : val[k] = r})

\* Every pair of a candidate string w and a token i of the block, with its
\* result: <<w, i, result>>
PairResults ==
    {<<w, i, MatchesOfWord(Nav(block, call.add_textblock),
                           _process_tokens(block.tokens, call), call, w)[i]>> :
        w \in WordsOf(call), i \in 1..Len(block.tokens)}

\* The pairs that the call has to return
KeptPairs ==
    {p \in PairResults :
        \/ call.all_results
        \/ IF call.regex THEN p[3][8] > 0 ELSE p[3][8] >= call.min_ratio}

\* val holds the results of the pairs K, each as often as K has pairs with it
HoldsExactly(val, K) ==
    /\ Len(val) = Cardinality(K)
    /\ \A p \in K : Count(val, p[3]) = Cardinality({q \in K : q[3] = p[3]})

\* Normalisation as the docstring of match describes it
DocumentedNormalised(token, c) ==
    IF ~c.normalise THEN token
    ELSE IF c.include_numbers THEN SelectSeq(lower(token), LAMBDA ch : ch \in Letters \cup Digits)
    ELSE SelectSeq(lower(token), LAMBDA ch : ch \in Letters)

\* C11: with normalise=True a token's content is lower-cased and stripped of
\* every non-letter when include_numbers=False and of every non-alphanumeric
\* when include_numbers=True; with normalise=False it is not normalised.
\* Read off the token of every result of a one-word, unfiltered, unsorted call.
C11_NormalisedAsDocumented ==
    \A k \in DOMAIN matches :
        (/\ matches[k].err = None
         /\ call.token.kind = "str"
         /\ call.all_results
         /\ ~call.sort_results) =>
            \A i \in 1..Len(block.tokens) :
                matches[k].val[i][7] =
                    Apply(call.stem, stem,
                          Apply(call.lemmatise, lemmatize,
                                DocumentedNormalised(block.tokens[i][5], call)))

\* C11: match was called with normalise=True and include_numbers=True on a
\* block whose first token is "Cat1", and the processed token has lost its
\* digit.
C11_DigitStripped ==
    /\ matches # <<>>
    /\ matches[1].err = None
    /\ call.normalise /\ call.include_numbers
    /\ ~call.lemmatise /\ ~call.stem
    /\ call.all_results /\ ~call.sort_results /\ call.token.kind = "str"
    /\ block.tokens # <<>>
    /\ block.tokens[1][5] = Words.Cat1
    /\ matches[1].val[1][7] = Words.cat

\* C12: with all_results=False match returns exactly the (candidate, token)
\* pairs whose score is >= min_ratio in fuzzy mode and > 0 (that is 100) in
\* regex mode; with all_results=True one result for every pair of a distinct
\* candidate and a token; duplicate candidates are matched once.
C12_ExactlyThePassingPairs ==
    (matches # <<>> /\ matches[1].err = None) =>
        LET K == KeptPairs
        IN \A k \in DOMAIN matches :
               /\ matches[k].err = None
               /\ HoldsExactly(matches[k].val, K)
               /\ call.regex =>
                      \A j \in DOMAIN matches[k].val :
                          matches[k].val[j][8] \in
                              (IF call.all_results THEN {0, 100} ELSE {100})

\* C12: a fuzzy call with the candidate "cat" given twice and the default
\* min_ratio, on a block of "cats" (score 86) and "at." (score 67), returned
\* the one result of "cats".
C12_OneOfTwoPasses ==
    /\ matches # <<>>
    /\ matches[1].err = None
    /\ call.token = [kind |-> "list", words |-> <<Words.cat, Words.cat>>]
    /\ ~call.regex /\ ~call.all_results
    /\ call.fuzz_method = <<"ratio">> /\ call.min_ratio = MIN_RATIO
    /\ ~call.normalise /\ ~call.lemmatise /\ ~call.stem
    /\ Len(block.tokens) = 2
    /\ block.tokens[1][5] = Words.cats /\ block.tokens[2][5] = Words.atdot
    /\ Len(matches[1].val) = 1
    /\ matches[1].val[1][2] = 0
    /\ matches[1].val[1][8] = 86

C14_OriginalToken ==
    \A k \in DOMAIN matches :
        \A j \in DOMAIN matches[k].val :
            /\ Len(matches[k].val[j]) = 8
            /\ matches[k].val[j][1] =
                   <<block.filename, block.document_code, block.page_code,
                     block.id>> \o
                   (IF call.add_textblock THEN <<"self">> ELSE <<>>)
            /\ matches[k].val[j][2] \in 0..(Len(block.tokens) - 1)
            /\ matches[k].val[j][3] = block.tokens[matches[k].val[j][2] + 1][1]
            /\ matches[k].val[j][4] = block.tokens[matches[k].val[j][2] + 1][2]
            /\ matches[k].val[j][5] = block.tokens[matches[k].val[j][2] + 1][3]
            /\ matches[k].val[j][6] = block.tokens[matches[k].val[j][2] + 1][4]
            /\ matches[k].val[j][7] = block.tokens[matches[k].val[j][2] + 1][5]

\* C14: a call with normalise=True matched the token "at." and its result
\* holds "at".
C14_ProcessedToken ==
    /\ matches # <<>>
    /\ call.normalise /\ ~call.lemmatise /\ ~call.stem
    /\ block.tokens # <<>>
    /\ block.tokens[1][5] = Words.atdot
    /\ \E j \in DOMAIN matches[1].val :
           /\ matches[1].val[j][2] = 0
           /\ matches[1].val[j][7] = <<"a", "t">>

\* C15: a call with a fuzz_method that is none of ratio, partial_ratio,
\* token_sort_ratio, token_set_ratio fails and returns no results, whatever
\* the other arguments are.
C15_UnknownMethodFails ==
    \A k \in DOMAIN matches :
        call.fuzz_method \notin FuzzMethods =>
            /\ matches[k].err # None
            /\ matches[k].val = <<>>

\* C15: a regex call with an unknown fuzz_method returned results.
C15_RegexIgnoresMethod ==
    /\ matches # <<>>
    /\ call.regex
    /\ call.fuzz_method \notin FuzzMethods
    /\ matches[1].err = None
    /\ matches[1].val # <<>>

BlocksWithId(id) == {i \in 1..Len(page.textblocks) : page.textblocks[i] = id}

\* The positions of the page's areas that have the id
AreasWithId(id) == {i \in 1..Len(page.areas) : page.areas[i].id = id}

\* C17: Area.textblock is the text block of the area's page whose id is the
\* area's id, None when the page has none, and fails with a RuntimeError
\* when more than one text block of the page has the area's id.
C17_DuplicateBlocksFail ==
    (result.op = "textblock" /\ page.asked > 0) =>
        IF Cardinality(BlocksWithId(page.areas[page.asked].id)) > 1
        THEN result.err = "RuntimeError"
        ELSE /\ result.err = None
             /\ IF BlocksWithId(page.areas[page.asked].id) = {}
                THEN result.val = <<>>
                ELSE /\ Len(result.val) = 1
                     /\ result.val[1].id = page.areas[page.asked].id

\* C17: area.textblock on a page with one area and two text blocks of the
\* area's id returned the first of the two and raised nothing.
C17_FirstOfTwoBlocks ==
    /\ result.op = "textblock"
    /\ Len(page.areas) = 1
    /\ page.areas[1].id = pa1
    /\ page.textblocks = <<pa1, pa1>>
    /\ result.err = None
    /\ Len(result.val) = 1
    /\ result.val[1].id = pa1

\* C18: constructing a TextBlock whose id is the id of more than one Area
\* of its page fails; when exactly one Area has the id, the block's shape,
\* coords and page_area are those of that Area; when none has it they are
\* None.
C18_AreaOfBlock ==
    (result.op = "TextBlock" /\ page.asked > 0) =>
        IF Cardinality(AreasWithId(page.textblocks[page.asked])) > 1
        THEN result.err = "RuntimeError"
        ELSE /\ result.err = None
             /\ \A i \in AreasWithId(page.textblocks[page.asked]) :
                    result.val = <<page.areas[i].type, page.areas[i].coords,
                                   page.areas[i].page_part>>
             /\ AreasWithId(page.textblocks[page.asked]) = {} =>
                    result.val = <<NoneStr, NoneStr, NoneStr>>

\* C18: a TextBlock with the id of two areas of its page was constructed,
\* and the construction raised RuntimeError.
C18_TwoAreasOneBlock ==
    /\ result.op = "TextBlock"
    /\ Len(page.areas) = 2
    /\ page.areas[1].id = pa1 /\ page.areas[2].id = pa1
    /\ page.areas[1] # page.areas[2]
    /\ page.textblocks[page.asked] = pa1
    /\ result.err = "RuntimeError"

\* C19: constructing a Page never fails because of WIDTH, HEIGHT or PC: a
\* missing or non-numeric WIDTH or HEIGHT gives width or height 0, a missing
\* or non-numeric PC gives page confidence 0.
C19_FallbackToZero ==
    result.op = "Page" =>
        /\ result.err = None
        /\ result.val[1] = (IF page.WIDTH = <<"7">> THEN 7 ELSE 0)
        /\ result.val[2] = (IF page.HEIGHT = <<"7">> THEN 7 ELSE 0)
        /\ result.val[3] = (IF page.PC = <<"7">> THEN 7 ELSE 0)

\* C19: a Page whose Page element has no WIDTH was constructed, and the
\* construction raised TypeError.
C19_MissingWidth ==
    /\ result.op = "Page"
    /\ page.WIDTH = NoneStr
    /\ page.HEIGHT = <<"7">>
    /\ page.PC = <<"7">>
    /\ result.err = "TypeError"

\* C20: opening an Archive whose listing has no entry that matches the
\* document pattern and none that matches the page pattern fails, and
\* produces no Archive object.
C20_NoMatchFails ==
    (/\ result.op = "Archive"
     /\ \A i \in 1..Len(listing.filenames) :
            /\ document_match(listing.filenames[i]) = <<>>
            /\ page_match(listing.filenames[i]) = <<>>) =>
        /\ result.err # None
        /\ listing.state = "failed"

\* C20: a defoe.alto.archive archive that lists a.xml only was opened, and
\* the Archive object has no document codes.
C20_EmptyArchive ==
    /\ result.op = "Archive"
    /\ listing.cls = "alto"
    /\ listing.filenames = << <<"a">> \o DotXml >>
    /\ listing.state = "open"
    /\ result.err = None
    /\ result.val = <<>>

\* The listing entries that match the page pattern with document code d
PageEntries(d) ==
    SelectSeq(listing.filenames,
              LAMBDA n : page_match(n) # <<>> /\ page_match(n)[2] = d)

\* C21: after an Archive is opened, the page list recorded under every
\* document code d holds exactly the page codes captured from the listing
\* entries that match the page pattern with document code d, once each and
\* in listing order; no page is recorded under another document code.
C21_PagesUnderOwnCode ==
    (result.op = "Archive" /\ listing.state = "open") =>
        \A k \in 1..Len(result.val) :
            result.val[k][2] =
                [i \in 1..Len(PageEntries(result.val[k][1])) |->
                    page_match(PageEntries(result.val[k][1])[i])[3]]

\* C21: an archive_combine archive that lists 1_2_mets.xml and 1_2_01.xml
\* was opened, and the page list of document 1_2 holds the file name
\* 1_2_01.xml.
C21_FileNameAsPage ==
    /\ result.op = "Archive"
    /\ listing.cls = "combine"
    /\ listing.state = "open"
    /\ listing.filenames = << <<"1", "_", "2">> \o MetsXml,
                              <<"1", "_", "2", "_", "0", "1">> \o DotXml >>
    /\ result.val = << << <<"1", "_", "2">>,
                          << <<"1", "_", "2", "_", "0", "1">> \o DotXml >> >> >>

\* The integers of the sub-codes of the page codes of the model
KeyOf(code) ==
    IF code \in {<<"2">>, <<"0", "0", "0", "2">>} THEN <<2>>
    ELSE IF code \in {<<"1", "0">>, <<"0", "0", "1", "0">>} THEN <<10>>
    ELSE IF code \in {<<"1", "_", "2">>, <<"0", "1", "_", "2">>} THEN <<1, 2>>
    ELSE <<1, 10>>

\* Key a comes before key b in natural numeric order, sub-code by sub-code
KeyBefore(a, b) ==
    \/ a[1] < b[1]
    \/ /\ a[1] = b[1]
       /\ \/ Len(a) < Len(b)
          \/ Len(a) = 2 /\ Len(b) = 2 /\ a[2] < b[2]

\* codes are in ascending order of their keys
Ascending(codes) ==
    \A i, j \in 1..Len(codes) :
        i < j => ~KeyBefore(KeyOf(codes[j]), KeyOf(codes[i]))

\* C22: Document.page_codes is in ascending order of the numeric-aware key,
\* whatever the order of the pages in the archive listing or in the METS
\* physical structural map.
C22_PageCodesAscending ==
    result.op \in {"alto.page_codes", "fmp.page_codes"} =>
        /\ Len(result.val) = Len(listing)
        /\ Ascending(result.val)

\* C22: a defoe.fmp document whose METS file has the page of ORDER 10
\* before the page of ORDER 2 has the page codes 0010, 0002.
C22_MetsOrderKept ==
    /\ result.op = "fmp.page_codes"
    /\ listing = << <<"1", "0">>, <<"2">> >>
    /\ result.val = << <<"0", "0", "1", "0">>, <<"0", "0", "0", "2">> >>

C26_ComputedAtMostOnce ==
    doc.state = "ok" =>
        /\ doc.computed.areas <= 1
        /\ doc.computed.parts_coord <= 1
        /\ doc.computed.article_id_lookup <= 1
        /\ doc.computed.articles_ids <= 1
        /\ doc.computed.pages_metadata <= 1

\* parts_coord of a document with a page and no area was read: the empty
\* map was computed again by that read
C26_EmptyMapComputedAgain ==
    /\ result.op = "parts_coord"
    /\ result.val = <<>>
    /\ Len(mets.phys) = 1
    /\ doc.reads = 1
    /\ doc.computed.parts_coord > 3

\* C29: whenever page.areas is read on a Page instance, every Area it
\* returns has the page's code as page_code and that very instance as its
\* page, and the read constructs no further Page
C29_AreasOfThisPage ==
    [][ReadPageAreas =>
          /\ \A i \in 1..Len(result'.val) :
                /\ result'.val[i].page_code = page.code
                /\ result'.val[i]._page = page.instance
          /\ doc'.parsed = doc.parsed]_vars

\* page.areas returned an Area of the page whose page is another Page
\* instance, constructed by that read
C29_AreaOfAnotherInstance ==
    /\ result.op = "page.areas"
    /\ Len(result.val) > 0
    /\ result.val[1].page_code = page.code
    /\ result.val[1]._page = page.instance + 1
    /\ Len(doc.parsed) = page.instance + 1

\* The id without its leading non-alphanumeric characters
RECURSIVE LeadingStripped(_)
LeadingStripped(id) ==
    IF id = <<>> \/ IsAlnum(id[1]) THEN id ELSE LeadingStripped(Tail(id))

\* C30: the cleaned id of a locator is its xlink:href without the leading
\* non-alphanumeric characters, every other character kept, and cleaning a
\* cleaned id returns it unchanged
C30_OnlyLeadingRemoved ==
    /\ result.op = "_clean_id" => result.val[1] = LeadingStripped(mets.href)
    /\ result.op = "_clean_id again" =>
           result.val[1] = LeadingStripped(mets.href)

\* #a_1 was cleaned to a1
C30_InnerUnderscoreRemoved ==
    /\ mets.href = <<"#", "a", "_", "1">>
    /\ result.op = "_clean_id"
    /\ result.val[1] = <<"a", "1">>

\* C27: a reader that has returned from article_id_lookup holds the complete
\* map, the one a single reader computes, however the statements of the
\* readers interleaved; and the map stored in a constructed document is that
\* complete map at every moment
C27_ReadersGetCompleteMap ==
    /\ \A t \in Readers :
          call[t].pc = "done" =>
              doc.heap[call[t].ret] = article_id_lookup(mets).val
    /\ doc.state = "ok" =>
          doc.heap[doc._article_id_lookup] = article_id_lookup(mets).val

\* Two readers are both between the test and the return of article_id_lookup
\* on a document whose map has two entries
C27_TwoReadersInside ==
    /\ Len(article_id_lookup(mets).val) = 2
    /\ call[2].pc = "return"
    /\ call[3].pc = "return"

\* The file name ends in .yml, .yaml or .json
AllowedEnding(name) ==
    \E e \in {YmlEnding, YamlEnding, JsonEnding} : endswith(name, e)

\* The dump that belongs to the ending of the name
DumpOfEnding(name) ==
    IF endswith(name, JsonEnding) THEN "json.dumps" ELSE "yaml.safe_dump"

\* C25: run_query.main ends without SyntaxError exactly when the errors file
\* and the results file both end in .yml, .yaml or .json, run_queries.main
\* exactly when the errors file does; a file that is written is written
\* with the dump of its ending
C25_EndingsAccepted ==
    /\ result.op = "run_query" =>
          /\ result.err = None <=>
                (AllowedEnding(call.errors_file) /\
                 AllowedEnding(call.results_file))
          /\ result.err = None =>
                /\ result.val[1] = DumpOfEnding(call.errors_file)
                /\ result.val[2] = DumpOfEnding(call.results_file)
    /\ result.op = "run_queries" =>
          /\ result.err = None <=> AllowedEnding(call.errors_file)
          /\ result.err = None =>
                result.val[1] = DumpOfEnding(call.errors_file)

\* run_query.main with the default names errors.yml and results.yml ended
\* with SyntaxError
C25_DefaultsRefused ==
    /\ call.errors_file = ErrorsStem \o YmlEnding
    /\ call.results_file = ResultsStem \o YmlEnding
    /\ result.op = "run_query"
    /\ result.err = "SyntaxError"

\* One entry per attribute value: a float for a numeric value, the value
\* itself otherwise
Converted(entries) ==
    [i \in 1..Len(entries) |->
        IF IsNumeric(entries[i].text) THEN float(entries[i]) ELSE entries[i]]

\* C28: in a constructed text block the aliases wc and textblock_wc are the
\* WC values of the String elements that carry one, in document order, the
\* numeric ones as floats and the others as they are, cc and textblock_cc
\* likewise for CC, and every read of word_confidences and of
\* character_confidences returns that same list
C28_ConfidencesOfStrings ==
    block.state = "ok" =>
        /\ block.wc = Converted(WCsOf(block.strings))
        /\ block.textblock_wc = Converted(WCsOf(block.strings))
        /\ block.cc = Converted(CCsOf(block.strings))
        /\ block.textblock_cc = Converted(CCsOf(block.strings))
        /\ result.op = "word_confidences" =>
               result.val = Converted(WCsOf(block.strings))
        /\ result.op = "character_confidences" =>
               result.val = Converted(CCsOf(block.strings))

\* A block with the word confidences 0 and 0.5 was constructed: textblock_wc
\* is [0.0, 0.5] and wc is [0.5]
C28_ZeroDropped ==
    /\ block.state = "ok"
    /\ WCsOf(block.strings) = <<StrEntry(<<"0">>), StrEntry(<<"0", ".", "5">>)>>
    /\ block.textblock_wc = <<FloatEntry(0), FloatEntry(50)>>
    /\ block.wc = <<FloatEntry(50)>>

====
